---- MODULE Spec2Model ----
(***************************************************************************)
(* Model of redis-dumper's partitioned sink (internal/exporter/storage.go, *)
(* FileManager) and of the scan loops of the three export modes            *)
(* (RedisExporter).                                                        *)
(*                                                                         *)
(* Every operating-system, DuckDB and Redis call whose error the code      *)
(* tests is a fault point: an operation receives an oracle F, the set of   *)
(* fault points that fail during this call.                                *)
(***************************************************************************)
EXTENDS Integers, Sequences, FiniteSets, TLC

VARIABLES fm, disk, hist, ex

vars == <<fm, disk, hist, ex>>

\* ------------------------------------------------------------------ bounds
MaxCalls == 4
MaxRecordsBound == 2
MaxStoreFaults == 2
MaxSinkFaults == 1

\* --------------------------------------------------------------- constants
FormatCSV == "csv"
FormatParquet == "parquet"
FormatInvalid == "invalid"

Formats == {FormatCSV, FormatParquet, FormatInvalid}
MaxRecordsValues == 0..MaxRecordsBound

\* strconv.FormatInt(n, 10), strconv.Itoa(n) and their inverse
IntRange == -1..64
FormatInt(n) == ToString(n)
ParseInt(s) == CHOOSE n \in IntRange : FormatInt(n) = s

\* the csv header row (storage.go:132)
Header == [Key |-> "key", Type |-> "type", Value |-> "value",
           ttl_seconds |-> "ttl_seconds", partition_id |-> "partition_id"]

\* RedisRecord (storage.go:25-31); exported_at is left out
RedisRecord(key, type, value, ttl) ==
  [Key |-> key, Type |-> type, Value |-> value, TTLSeconds |-> ttl]

\* ----------------------------------------------------------------- helpers
Ret(f, d, e, r) == [fm |-> f, disk |-> d, err |-> e, rot |-> r]

Fault(F, p) == p \in F

\* Op applied to the value of v: an intermediate result is computed once
Bind(v, Op(_)) == CHOOSE y \in {Op(x) : x \in {v}} : TRUE

Put(fn, k, v) == [x \in (DOMAIN fn) \cup {k} |-> IF x = k THEN v ELSE fn[x]]

RECURSIVE SumCounts(_)
SumCounts(ps) == IF ps = <<>> THEN 0
                 ELSE ps[1].RecordCount + SumCounts(Tail(ps))

CeilDiv(n, m) == (n + m - 1) \div m

\* ------------------------------------------------------------ FileManager
\* a bug NewFileManager could have: the partition ids are counted from 1 on
\* construction, so that the first partition opened gets id 2
NewFileManagerFromOne(format, max) ==
  [ Format |-> format, MaxRecords |-> max,
    recordCount |-> 0, partitionID |-> 1,
    ExportID |-> "export_now", StartTime |-> "now",
    Partitions |-> <<>>, Pattern |-> "", TotalKeys |-> 0, EndTime |-> "zero",
    csvWriter |-> "nil", csvBuf |-> <<>>,
    csvFile |-> "nil", csvFileID |-> 0,
    db |-> "nil", dbTable |-> FALSE, dbRows |-> <<>> ]

NewFileManager(format, max) ==
  [ Format |-> format, MaxRecords |-> max,
    recordCount |-> 0, partitionID |-> 0,
    ExportID |-> "export_now", StartTime |-> "now",
    Partitions |-> <<>>, Pattern |-> "", TotalKeys |-> 0, EndTime |-> "zero",
    csvWriter |-> "nil", csvBuf |-> <<>>,
    csvFile |-> "nil", csvFileID |-> 0,
    db |-> "nil", dbTable |-> FALSE, dbRows |-> <<>> ]

NewDisk ==
  [ dir |-> FALSE, files |-> <<>>,
    metaExists |-> FALSE, metaValid |-> FALSE, metaParts |-> <<>>,
    metaPattern |-> "", metaTotalKeys |-> 0, metaEndTime |-> "zero", metaWrites |-> 0 ]

\* csv.Writer.Flush: the buffered rows reach the file; on a closed file the
\* write fails and Flush reports nothing
Flush(f, d) ==
  IF f.csvFile = "open"
  THEN Ret([f EXCEPT !.csvBuf = <<>>],
           [d EXCEPT !.files = Put(d.files, f.csvFileID, d.files[f.csvFileID] \o f.csvBuf)],
           FALSE, FALSE)
  ELSE Ret(f, d, FALSE, FALSE)

\* a bug initializeCSVWriter could have: the writer of a later partition is
\* created on the file of the first one
CSVOpenedOnFirstFile(f) ==
  [f EXCEPT !.csvFile = "open", !.csvWriter = "open", !.csvBuf = <<>>,
            !.csvFileID = IF f.csvFileID = 0 THEN f.partitionID ELSE f.csvFileID]

\* f with the fields initializeCSVWriter sets once os.Create succeeded
CSVOpened(f) ==
  [f EXCEPT !.csvFile = "open", !.csvFileID = f.partitionID, !.csvWriter = "open", !.csvBuf = <<>>]

initializeCSVWriter(f, d, F, t) ==
  IF Fault(F, <<"create", t>>) THEN Ret(f, d, TRUE, FALSE)
  ELSE IF Fault(F, <<"header", t>>)
       THEN Ret(CSVOpened(f), [d EXCEPT !.files = Put(d.files, f.partitionID, <<>>)], TRUE, FALSE)
       ELSE Ret([CSVOpened(f) EXCEPT !.csvBuf = <<Header>>],
                [d EXCEPT !.files = Put(d.files, f.partitionID, <<>>)], FALSE, FALSE)

initializeDuckDBWriter(f, d, F, t) ==
  IF Fault(F, <<"sqlopen", t>>) THEN Ret(f, d, TRUE, FALSE)
  ELSE IF Fault(F, <<"createtable", t>>)
       THEN Ret([f EXCEPT !.db = "open", !.dbTable = FALSE, !.dbRows = <<>>], d, TRUE, FALSE)
       ELSE Ret([f EXCEPT !.db = "open", !.dbTable = TRUE, !.dbRows = <<>>], d, FALSE, FALSE)

\* %04d of fmt.Sprintf for the ids of the model
Pad4(n) == IF n < 10 THEN "000" \o FormatInt(n)
           ELSE IF n < 100 THEN "00" \o FormatInt(n)
           ELSE IF n < 1000 THEN "0" \o FormatInt(n) ELSE FormatInt(n)

\* the name of the data file of partition id (storage.go:120, 297)
fileName(format, id) ==
  "redis_data_part_" \o Pad4(id) \o (IF format = FormatCSV THEN ".csv" ELSE ".parquet")

\* a bug initializeWriter could have: the partition id is not advanced
NextPartitionIDSame(f) == f.partitionID

\* fm.partitionID++ (storage.go:98)
NextPartitionID(f) == f.partitionID + 1

\* a bug initializeWriter could have: an unknown format falls back to csv
initializeWriterDefaultCSV(f, d, F, t) ==
  Bind([f EXCEPT !.partitionID = NextPartitionID(f)], LAMBDA f1 :
    IF Fault(F, <<"mkdir", t>>) THEN Ret(f1, d, TRUE, FALSE)
    ELSE Bind([d EXCEPT !.dir = TRUE], LAMBDA d1 :
           CASE f.Format = FormatParquet -> initializeDuckDBWriter(f1, d1, F, t)
             [] OTHER -> initializeCSVWriter(f1, d1, F, t)))

initializeWriter(f, d, F, t) ==
  Bind([f EXCEPT !.partitionID = NextPartitionID(f)], LAMBDA f1 :
    IF Fault(F, <<"mkdir", t>>) THEN Ret(f1, d, TRUE, FALSE)
    ELSE Bind([d EXCEPT !.dir = TRUE], LAMBDA d1 :
           CASE f.Format = FormatCSV -> initializeCSVWriter(f1, d1, F, t)
             [] f.Format = FormatParquet -> initializeDuckDBWriter(f1, d1, F, t)
             [] OTHER -> Ret(f1, d1, TRUE, FALSE)))

\* a bug writeCSVRecord could have: the type and value columns change places
CSVRowSwapped(f, record) ==
  [Key |-> record.Key, Type |-> record.Value, Value |-> record.Type,
   ttl_seconds |-> FormatInt(record.TTLSeconds), partition_id |-> FormatInt(f.partitionID)]

\* the row of strings writeCSVRecord builds (storage.go:200-207)
CSVRow(f, record) ==
  [Key |-> record.Key, Type |-> record.Type, Value |-> record.Value,
   ttl_seconds |-> FormatInt(record.TTLSeconds), partition_id |-> FormatInt(f.partitionID)]

writeCSVRecord(f, d, F, record) ==
  IF Fault(F, <<"csvwrite", 1>>) THEN Ret(f, d, TRUE, FALSE)
  ELSE Ret([f EXCEPT !.csvBuf = Append(f.csvBuf, CSVRow(f, record)),
                     !.recordCount = f.recordCount + 1],
           d, FALSE, FALSE)

\* a bug writeDuckDBRecord could have: the partition_id column counts from 0
DuckDBRowZeroBased(f, record) ==
  [Key |-> record.Key, Type |-> record.Type, Value |-> record.Value,
   ttl_seconds |-> record.TTLSeconds, partition_id |-> f.partitionID - 1]

\* the typed row of the INSERT (storage.go:223-229)
DuckDBRow(f, record) ==
  [Key |-> record.Key, Type |-> record.Type, Value |-> record.Value,
   ttl_seconds |-> record.TTLSeconds, partition_id |-> f.partitionID]

\* an INSERT on a closed connection or without the table fails
writeDuckDBRecord(f, d, F, record) ==
  IF Fault(F, <<"insert", 1>>) \/ f.db # "open" \/ ~f.dbTable THEN Ret(f, d, TRUE, FALSE)
  ELSE Ret([f EXCEPT !.dbRows = Append(f.dbRows, DuckDBRow(f, record)),
                     !.recordCount = f.recordCount + 1],
           d, FALSE, FALSE)

PartitionInfo(f, fileID) ==
  [PartitionID |-> f.partitionID, FileName |-> fileID, RecordCount |-> f.recordCount]

\* Stat on a file that Close was already called on fails
rotateCSVWriter(f, d, F) ==
  Bind(IF f.csvWriter # "nil" THEN Flush(f, d) ELSE Ret(f, d, FALSE, FALSE), LAMBDA r0 :
    IF r0.fm.csvFile # "nil"
    THEN IF Fault(F, <<"stat", 1>>) \/ r0.fm.csvFile = "closed" THEN Ret(r0.fm, r0.disk, TRUE, FALSE)
         ELSE Bind([r0.fm EXCEPT !.Partitions = Append(r0.fm.Partitions,
                                                      PartitionInfo(r0.fm, r0.fm.csvFileID))],
                   LAMBDA f1 :
                IF Fault(F, <<"fclose", 1>>)
                THEN Ret([f1 EXCEPT !.csvFile = "closed"], r0.disk, TRUE, FALSE)
                ELSE Ret([f1 EXCEPT !.csvFile = "nil", !.csvWriter = "nil", !.csvBuf = <<>>,
                                    !.recordCount = 0], r0.disk, FALSE, TRUE))
    ELSE Ret([r0.fm EXCEPT !.recordCount = 0], r0.disk, FALSE, FALSE))

\* COPY on a closed connection or without the table fails; a failed DROP
\* TABLE is only logged
rotateDuckDBWriter(f, d, F) ==
  IF f.db = "nil" THEN Ret(f, d, FALSE, FALSE)
  ELSE IF Fault(F, <<"copy", 1>>) \/ f.db = "closed" \/ ~f.dbTable THEN Ret(f, d, TRUE, FALSE)
  ELSE Bind([d EXCEPT !.files = Put(d.files, f.partitionID, f.dbRows)], LAMBDA d1 :
         IF Fault(F, <<"osstat", 1>>) THEN Ret(f, d1, TRUE, FALSE)
         ELSE Bind([f EXCEPT !.Partitions = Append(f.Partitions, PartitionInfo(f, f.partitionID)),
                             !.dbTable = IF Fault(F, <<"drop", 1>>) THEN f.dbTable ELSE FALSE,
                             !.dbRows = IF Fault(F, <<"drop", 1>>) THEN f.dbRows ELSE <<>>],
                   LAMBDA f2 :
                IF Fault(F, <<"dbclose", 1>>)
                THEN Ret([f2 EXCEPT !.db = "closed"], d1, TRUE, FALSE)
                ELSE Ret([f2 EXCEPT !.db = "nil", !.dbTable = FALSE, !.dbRows = <<>>,
                                    !.recordCount = 0], d1, FALSE, TRUE)))

\* a bug RotateWriter could have: every rotation rewrites the metadata file
RotateWriterWithMetadata(f, d, F) ==
  IF f.recordCount = 0 THEN Ret(f, d, FALSE, FALSE)
  ELSE Bind(CASE f.Format = FormatCSV -> rotateCSVWriter(f, d, F)
              [] f.Format = FormatParquet -> rotateDuckDBWriter(f, d, F)
              [] OTHER -> Ret(f, d, TRUE, FALSE),
            LAMBDA r : IF r.rot THEN Ret(r.fm, [r.disk EXCEPT !.metaExists = TRUE, !.metaValid = TRUE,
                                                    !.metaParts = r.fm.Partitions,
                                                    !.metaWrites = r.disk.metaWrites + 1],
                                    r.err, r.rot)
                       ELSE r)

\* a bug RotateWriter could have: an empty partition is rotated like any other
RotateWriterEmptyToo(f, d, F) ==
  CASE f.Format = FormatCSV -> rotateCSVWriter(f, d, F)
    [] f.Format = FormatParquet -> rotateDuckDBWriter(f, d, F)
    [] OTHER -> Ret(f, d, TRUE, FALSE)

RotateWriter(f, d, F) ==
  IF f.recordCount = 0 THEN Ret(f, d, FALSE, FALSE)
  ELSE CASE f.Format = FormatCSV -> rotateCSVWriter(f, d, F)
         [] f.Format = FormatParquet -> rotateDuckDBWriter(f, d, F)
         [] OTHER -> Ret(f, d, TRUE, FALSE)

\* a bug WriteRecord could have: the threshold test is strict
NeedRotateStrict(f) == f.recordCount > f.MaxRecords

\* the rotation test of WriteRecord (storage.go:178)
NeedRotate(f) == f.recordCount >= f.MaxRecords

\* WriteRecord from the rotation test on (storage.go:177-195), entered with
\* the result r0 of the lazy initialization
RotateAndWrite(r0, F, record) ==
  Bind(IF NeedRotate(r0.fm)
       THEN Bind(RotateWriter(r0.fm, r0.disk, F), LAMBDA rr :
              IF rr.err THEN rr
              ELSE Bind(initializeWriter(rr.fm, rr.disk, F, 2), LAMBDA ri :
                     Ret(ri.fm, ri.disk, ri.err, rr.rot)))
       ELSE r0,
       LAMBDA r1 :
    IF r1.err THEN r1
    ELSE Bind(CASE r1.fm.Format = FormatCSV -> writeCSVRecord(r1.fm, r1.disk, F, record)
                [] r1.fm.Format = FormatParquet -> writeDuckDBRecord(r1.fm, r1.disk, F, record)
                [] OTHER -> Ret(r1.fm, r1.disk, TRUE, FALSE),
              LAMBDA rw : Ret(rw.fm, rw.disk, rw.err, r1.rot)))

WriteRecord(f, d, F, record) ==
  Bind(IF f.csvWriter = "nil" /\ f.db = "nil"
       THEN initializeWriter(f, d, F, 1)
       ELSE Ret(f, d, FALSE, FALSE),
       LAMBDA r0 : IF r0.err THEN r0 ELSE RotateAndWrite(r0, F, record))

FlushAll(f, d) ==
  IF f.Format = FormatCSV /\ f.csvWriter # "nil" THEN Flush(f, d) ELSE Ret(f, d, FALSE, FALSE)

\* a bug SetMetadata could have: the metadata is built anew, without the
\* partitions recorded so far
SetMetadataFresh(f, pattern, totalKeys) ==
  [f EXCEPT !.Pattern = pattern, !.TotalKeys = totalKeys, !.Partitions = <<>>]

SetMetadata(f, pattern, totalKeys) == [f EXCEPT !.Pattern = pattern, !.TotalKeys = totalKeys]

\* the metadata document as the encoder writes it
MetadataWritten(f0, d0) ==
  [d0 EXCEPT !.metaExists = TRUE, !.metaValid = TRUE, !.metaParts = f0.Partitions,
             !.metaPattern = f0.Pattern, !.metaTotalKeys = f0.TotalKeys,
             !.metaEndTime = f0.EndTime, !.metaWrites = d0.metaWrites + 1]

\* a bug Close could have: an empty run writes no metadata file
writeMetadataSkipEmpty(f0, d0, F, rot) ==
  IF f0.Partitions = <<>> THEN Ret(f0, d0, FALSE, rot)
  ELSE Ret(f0, MetadataWritten(f0, d0), FALSE, rot)

\* the metadata part of Close (storage.go:364-383): EndTime is set,
\* os.Create truncates the file, the encoder then writes the document
writeMetadata(f0, d0, F, rot) ==
  Bind([f0 EXCEPT !.EndTime = "set"], LAMBDA f1 :
    IF Fault(F, <<"metacreate", 1>>) THEN Ret(f1, d0, TRUE, rot)
    ELSE IF Fault(F, <<"encode", 1>>)
         THEN Ret(f1, [d0 EXCEPT !.metaExists = TRUE, !.metaValid = FALSE, !.metaParts = <<>>,
                                 !.metaPattern = "", !.metaTotalKeys = 0,
                                 !.metaEndTime = "zero"], TRUE, rot)
         ELSE Ret(f1, MetadataWritten(f1, d0), FALSE, rot))

\* the error of the final rotation is printed and dropped (storage.go:358-362)
Close(f, d, F) ==
  Bind(IF f.recordCount > 0 THEN RotateWriter(f, d, F) ELSE Ret(f, d, FALSE, FALSE),
       LAMBDA r0 : writeMetadata(r0.fm, r0.disk, F, r0.rot))

\* --------------------------------------------------------- fault oracles
InitPoints(t) == {<<"mkdir", t>>, <<"create", t>>, <<"header", t>>,
                  <<"sqlopen", t>>, <<"createtable", t>>}
RotatePoints == {<<"stat", 1>>, <<"fclose", 1>>, <<"copy", 1>>, <<"osstat", 1>>,
                 <<"dbclose", 1>>}
WritePoints == {<<"csvwrite", 1>>, <<"insert", 1>>}
MetaPoints == {<<"metacreate", 1>>, <<"encode", 1>>}
DropPoint == <<"drop", 1>>

\* WriteRecord and RotateWriter return at the first failing call, except
\* for DROP TABLE, whose failure is logged and passed over
AtMostOne(S) == {{}} \cup {{p} : p \in S}
WithDrop(O) == O \cup {o \cup {DropPoint} : o \in O}
WriteOracles == WithDrop(AtMostOne(InitPoints(1) \cup RotatePoints \cup InitPoints(2) \cup WritePoints))
RotateOracles == WithDrop(AtMostOne(RotatePoints))
\* Close goes on to the metadata file after a failed rotation
CloseOracles == {r \cup m : r \in RotateOracles, m \in AtMostOne(MetaPoints)}

\* ---------------------------------------------------------------- history
IsOpen(f) == f.csvWriter # "nil" \/ f.db # "nil"

\* a csv row read back: the integer columns parsed
ReadCSVRow(row) ==
  [Key |-> row.Key, Type |-> row.Type, Value |-> row.Value,
   ttl_seconds |-> ParseInt(row.ttl_seconds), partition_id |-> ParseInt(row.partition_id)]

\* the row the writer received last, as a logical row
LastRow(f) == IF f.Format = FormatCSV THEN ReadCSVRow(f.csvBuf[Len(f.csvBuf)])
              ELSE f.dbRows[Len(f.dbRows)]

NoCall == [op |-> "none", startCount |-> 0, startOpen |-> FALSE, startPid |-> 0,
           err |-> FALSE, rot |-> FALSE, metaFault |-> FALSE]

NewHist ==
  [ calls |-> 0, nWriteOk |-> 0, nWriteErr |-> 0, nRotateCalls |-> 0, nCloseCalls |-> 0,
    failed |-> FALSE, epoch |-> 0, written |-> <<>>, last |-> NoCall, args |-> <<>> ]

Call(op, f, r, F) ==
  [op |-> op, startCount |-> f.recordCount, startOpen |-> IsOpen(f), startPid |-> f.partitionID,
   err |-> r.err, rot |-> r.rot, metaFault |-> (F \cap MetaPoints # {})]

\* a written row with the number of rotations before it
Logged(row, epoch) ==
  [Key |-> row.Key, Type |-> row.Type, Value |-> row.Value, ttl_seconds |-> row.ttl_seconds,
   partition_id |-> row.partition_id, epoch |-> epoch]

\* the history after a WriteRecord call with result r
HistWrite(h, f, r, F, record) ==
  [h EXCEPT !.calls = h.calls + 1,
            !.nWriteOk = IF r.err THEN h.nWriteOk ELSE h.nWriteOk + 1,
            !.nWriteErr = IF r.err THEN h.nWriteErr + 1 ELSE h.nWriteErr,
            !.failed = h.failed \/ r.err,
            !.epoch = IF r.rot THEN h.epoch + 1 ELSE h.epoch,
            !.written = IF r.err THEN h.written
                        ELSE Append(h.written, Logged(LastRow(r.fm),
                                                      IF r.rot THEN h.epoch + 1 ELSE h.epoch)),
            !.last = Call("write", f, r, F)]

HistOther(h, op, f, r, F) ==
  [h EXCEPT !.calls = h.calls + 1,
            !.nRotateCalls = IF op = "rotate" THEN h.nRotateCalls + 1 ELSE h.nRotateCalls,
            !.nCloseCalls = IF op = "close" THEN h.nCloseCalls + 1 ELSE h.nCloseCalls,
            !.failed = h.failed \/ r.err,
            !.epoch = IF r.rot THEN h.epoch + 1 ELSE h.epoch,
            !.last = Call(op, f, r, F)]

\* ------------------------------------------------ the sink, called directly
\* the i-th record handed to the sink
RecordNames == <<"r1", "r2", "r3", "r4", "r5", "r6", "r7", "r8">>
NextRecord(h) == RedisRecord(RecordNames[h.nWriteOk + h.nWriteErr + 1], "string", "value", 60)

ExIdle == [mode |-> "none", pc |-> "idle"]

Init ==
  /\ \E format \in Formats, max \in MaxRecordsValues : fm = NewFileManager(format, max)
  /\ disk = NewDisk
  /\ hist = NewHist
  /\ ex = ExIdle

DoWriteRecord ==
  /\ hist.calls < MaxCalls
  /\ \E F \in WriteOracles :
       \E r \in {WriteRecord(fm, disk, F, NextRecord(hist))} :
           /\ fm' = r.fm
           /\ disk' = r.disk
           /\ hist' = HistWrite(hist, fm, r, F, NextRecord(hist))
  /\ UNCHANGED ex

DoRotateWriter ==
  /\ hist.calls < MaxCalls
  /\ \E F \in RotateOracles :
       \E r \in {RotateWriter(fm, disk, F)} :
           /\ fm' = r.fm
           /\ disk' = r.disk
           /\ hist' = HistOther(hist, "rotate", fm, r, F)
  /\ UNCHANGED ex

DoFlushAll ==
  /\ hist.calls < MaxCalls
  /\ \E r \in {FlushAll(fm, disk)} :
         /\ fm' = r.fm
         /\ disk' = r.disk
         /\ hist' = HistOther(hist, "flush", fm, r, {})
  /\ UNCHANGED ex

DoClose ==
  /\ hist.calls < MaxCalls
  /\ \E F \in CloseOracles :
       \E r \in {Close(fm, disk, F)} :
           /\ fm' = r.fm
           /\ disk' = r.disk
           /\ hist' = HistOther(hist, "close", fm, r, F)
  /\ UNCHANGED ex

Next == DoWriteRecord \/ DoRotateWriter \/ DoFlushAll \/ DoClose

Spec == Init /\ [][Next]_vars

\* ------------------------------- the sink with SetMetadata among the calls
\* the arguments SetMetadata is called with
MaxTotalKeys == 1
MetadataArgs == {<<"*", 0>>, <<"user:*", MaxTotalKeys>>}

DoSetMetadata ==
  /\ hist.calls < MaxCalls
  /\ \E a \in MetadataArgs :
       /\ fm' = SetMetadata(fm, a[1], a[2])
       /\ hist' = [HistOther(hist, "setmeta", fm, Ret(fm, disk, FALSE, FALSE), {})
                     EXCEPT !.args = a]
  /\ UNCHANGED <<disk, ex>>

MetadataNext == DoWriteRecord \/ DoSetMetadata \/ DoClose

MetadataSpec == Init /\ [][MetadataNext]_vars

\* ---------------------------------------------------------- RedisExporter
\* The store: a finite key space, enumerated by SCAN in a fixed order, at
\* most BatchSize positions per call; cursor 0 starts a sweep and is
\* returned by the call that completes it.
StoreKeys == <<"user:1", "user:2", "order:1">>
\* the key spaces of the runs that look at what a key is flattened to
Stores == {<<"user:1", "user:2">>, <<"order:1", "tags">>, <<"board", "queue">>,
           <<"odd:h", "odd:z">>}
BatchSize == 2
\* the members (for a hash or a sorted set: the pairs) one sub-scan call
\* returns at most; the code asks for 1000, the store decides
PageSize == 2
\* const chunkSize of the list branch (part_001:541)
chunkSize == 1000
Patterns == {"*", "user:*", "none:*"}
flushInterval == 1000
Modes == {"ExportKeysOnly", "ExportKeysOnlyByPattern", "ExportByPattern"}

Match(pattern, key) ==
  CASE pattern = "*" -> TRUE
    [] pattern = "user:*" -> key \in {"user:1", "user:2"}
    [] OTHER -> FALSE

\* what the store holds: TYPE, TTL (a time.Duration, counted here in
\* milliseconds), GET, and what HSCAN, SSCAN, ZSCAN and LRANGE 0 -1 return
\* over all their pages; odd:h and odd:z answer with an element that has no
\* pair
KeyType(key) ==
  CASE key \in {"user:1", "odd:h"} -> "hash"
    [] key = "user:2" -> "string"
    [] key = "tags" -> "set"
    [] key \in {"board", "odd:z"} -> "zset"
    [] key = "queue" -> "list"
    [] OTHER -> "stream"

Second == 1000

StoreTTL(key) ==
  CASE key = "user:1" -> -1
    [] key = "user:2" -> 2500
    [] key = "tags" -> 30500
    [] OTHER -> 0

Get(key) == "x"
HScan(key) ==
  CASE key = "user:1" -> <<"name", "Ann", "age", "7">>
    [] key = "odd:h" -> <<"a", "1", "b">>
    [] OTHER -> <<>>
SScan(key) == IF key = "tags" THEN <<"go", "tla">> ELSE <<>>
ZScan(key) ==
  CASE key = "board" -> <<"p1", "9.5", "p2", "7", "p3", "7">>
    [] key = "odd:z" -> <<"m1", "1", "m2">>
    [] OTHER -> <<>>
LRange(key) == IF key = "queue" THEN <<"a", "b">> ELSE <<>>

\* the replies of one cursor loop: the collection cut into pages of width
\* elements, the last call returning cursor 0
RECURSIVE Pages(_, _)
Pages(reply, width) ==
  IF Len(reply) <= width THEN <<reply>>
  ELSE <<SubSeq(reply, 1, width)>> \o Pages(SubSeq(reply, width + 1, Len(reply)), width)

\* client.LRange(key, start, end) on the list values
Slice(values, start, end) == SubSeq(values, start + 1, end + 1)

\* int64(ttl.Seconds()): the fraction of a second is cut off
Seconds(d) == d \div Second

\* a bug the normalisation could have: a TTL of 0 is kept
ttlSecondsKeepZero(ttl) == IF ttl >= 0 THEN Seconds(ttl) ELSE -1

\* part_001:180-183, 282-285, 390-393
ttlSeconds(ttl) == IF ttl > 0 THEN Seconds(ttl) ELSE -1

estimateKeySize(key, keyType) ==
  CASE keyType = "string" -> Len(key)
    [] keyType \in {"set", "list", "hash", "zset"} -> Len(key) * 10
    [] OTHER -> Len(key)

\* the record of the keys-only modes (part_001:188-194, 287-293)
KeysOnlyRecord(key, keyType, ttl) ==
  RedisRecord(key, keyType, "size_estimate=" \o FormatInt(estimateKeySize(key, keyType)),
              ttlSeconds(ttl))

\* the loops of exportKeyData over one reply, position i (from 1) on, and
\* over the pages of its cursor loop, page p on: the records, and the value
\* added to totalSize
RECURSIVE SetRecords(_, _, _)
SetRecords(key, members, i) ==
  IF i > Len(members) THEN <<>>
  ELSE <<RedisRecord(key \o ":member:" \o members[i], "set_member", members[i], -1)>>
         \o SetRecords(key, members, i + 1)

\* a bug the hash loop could have: it advances by one position, not two
RECURSIVE HashRecordsByOne(_, _, _)
HashRecordsByOne(key, fields, i) ==
  IF i > Len(fields) THEN <<>>
  ELSE (IF i + 1 <= Len(fields)
        THEN <<RedisRecord(key \o ":field:" \o fields[i], "hash_field", fields[i + 1], -1)>>
        ELSE <<>>) \o HashRecordsByOne(key, fields, i + 1)

RECURSIVE HashRecords(_, _, _)
HashRecords(key, fields, i) ==
  IF i > Len(fields) THEN <<>>
  ELSE (IF i + 1 <= Len(fields)
        THEN <<RedisRecord(key \o ":field:" \o fields[i], "hash_field", fields[i + 1], -1)>>
        ELSE <<>>) \o HashRecords(key, fields, i + 2)

RECURSIVE ZSetRecords(_, _, _, _)
ZSetRecords(key, members, i, rank) ==
  IF i > Len(members) THEN <<>>
  ELSE IF i + 1 <= Len(members)
       THEN <<RedisRecord(key \o ":member:" \o members[i], "zset_member",
                          "score=" \o members[i + 1] \o ",rank=" \o FormatInt(rank), -1)>>
              \o ZSetRecords(key, members, i + 2, rank + 1)
       ELSE <<>>

RECURSIVE SetScan(_, _, _)
SetScan(key, pages, p) ==
  IF p > Len(pages) THEN <<>>
  ELSE SetRecords(key, pages[p], 1) \o SetScan(key, pages, p + 1)

RECURSIVE HashScan(_, _, _)
HashScan(key, pages, p) ==
  IF p > Len(pages) THEN <<>>
  ELSE HashRecords(key, pages[p], 1) \o HashScan(key, pages, p + 1)

\* a bug the sorted-set loop could have: rank is declared inside the cursor
\* loop and starts again with every page
RECURSIVE ZSetScanRankPerPage(_, _, _, _)
ZSetScanRankPerPage(key, pages, p, rank) ==
  IF p > Len(pages) THEN <<>>
  ELSE ZSetRecords(key, pages[p], 1, 0) \o ZSetScanRankPerPage(key, pages, p + 1, 0)

\* rank is declared before the cursor loop (part_001:498) and goes on from
\* page to page
RECURSIVE ZSetScan(_, _, _, _)
ZSetScan(key, pages, p, rank) ==
  IF p > Len(pages) THEN <<>>
  ELSE Bind(ZSetRecords(key, pages[p], 1, rank), LAMBDA recs :
         recs \o ZSetScan(key, pages, p + 1, rank + Len(recs)))

\* the records of one LRANGE reply that began at index start
ListChunk(key, values, start) ==
  [i \in 1..Len(values) |->
     RedisRecord(key \o ":index:" \o FormatInt(start + i - 1), "list_item", values[i], -1)]

\* a bug the list loop could have: the index counts within the chunk
RECURSIVE ListRecordsChunkIndex(_, _, _)
ListRecordsChunkIndex(key, values, start) ==
  IF start >= Len(values) THEN <<>>
  ELSE Bind(IF start + chunkSize - 1 >= Len(values) THEN Len(values) - 1
            ELSE start + chunkSize - 1, LAMBDA end :
         ListChunk(key, Slice(values, start, end), 0)
           \o ListRecordsChunkIndex(key, values, start + chunkSize))

\* the chunk loop over a list of LLEN = Len(values) elements, from index
\* start on (part_001:544-567)
RECURSIVE ListRecords(_, _, _)
ListRecords(key, values, start) ==
  IF start >= Len(values) THEN <<>>
  ELSE Bind(IF start + chunkSize - 1 >= Len(values) THEN Len(values) - 1
            ELSE start + chunkSize - 1, LAMBDA end :
         ListChunk(key, Slice(values, start, end), start)
           \o ListRecords(key, values, start + chunkSize))

RECURSIVE TotalSize(_, _, _)
TotalSize(reply, i, step) ==
  IF i > Len(reply) THEN 0
  ELSE IF step = 1 THEN Len(reply[i]) + TotalSize(reply, i + 1, step)
  ELSE IF i + 1 <= Len(reply)
       THEN Len(reply[i]) + Len(reply[i + 1]) + TotalSize(reply, i + 2, step)
       ELSE 0

RECURSIVE MemberSize(_, _)
MemberSize(members, i) ==
  IF i + 1 > Len(members) THEN 0
  ELSE Len(members[i]) + MemberSize(members, i + 2)

\* what exportKeyData does when no call fails: the records it hands to the
\* sink, the size it returns, the records one page yields at most and the
\* number of pages it fetches
Flattened(records, size, page, fetches) ==
  [records |-> records, size |-> size, page |-> page, fetches |-> fetches]

\* a bug exportKeyData could have: a type it does not know is read as a
\* string
exportKeyDataDefaultString(key, keyType) ==
  CASE keyType = "set" -> Flattened(SetScan(key, Pages(SScan(key), PageSize), 1),
                                    TotalSize(SScan(key), 1, 1),
                                    PageSize, Len(Pages(SScan(key), PageSize)))
    [] keyType = "hash" -> Flattened(HashScan(key, Pages(HScan(key), 2 * PageSize), 1),
                                     TotalSize(HScan(key), 1, 2),
                                     PageSize, Len(Pages(HScan(key), 2 * PageSize)))
    [] keyType = "zset" -> Flattened(ZSetScan(key, Pages(ZScan(key), 2 * PageSize), 1, 0),
                                     MemberSize(ZScan(key), 1),
                                     PageSize, Len(Pages(ZScan(key), 2 * PageSize)))
    [] keyType = "list" -> Flattened(ListRecords(key, LRange(key), 0),
                                     TotalSize(LRange(key), 1, 1),
                                     chunkSize, CeilDiv(Len(LRange(key)), chunkSize))
    [] OTHER -> Flattened(<<>>, Len(Get(key)), 0, 1)

\* exportKeyData with every WriteRecord succeeding: the records it hands
\* to the sink, in order, and the size it returns (part_001:414-574)
exportKeyData(key, keyType) ==
  CASE keyType = "string" -> Flattened(<<>>, Len(Get(key)), 0, 1)
    [] keyType = "set" -> Flattened(SetScan(key, Pages(SScan(key), PageSize), 1),
                                    TotalSize(SScan(key), 1, 1),
                                    PageSize, Len(Pages(SScan(key), PageSize)))
    [] keyType = "hash" -> Flattened(HashScan(key, Pages(HScan(key), 2 * PageSize), 1),
                                     TotalSize(HScan(key), 1, 2),
                                     PageSize, Len(Pages(HScan(key), 2 * PageSize)))
    [] keyType = "zset" -> Flattened(ZSetScan(key, Pages(ZScan(key), 2 * PageSize), 1, 0),
                                     MemberSize(ZScan(key), 1),
                                     PageSize, Len(Pages(ZScan(key), 2 * PageSize)))
    [] keyType = "list" -> Flattened(ListRecords(key, LRange(key), 0),
                                     TotalSize(LRange(key), 1, 1),
                                     chunkSize, CeilDiv(Len(LRange(key)), chunkSize))
    [] OTHER -> Flattened(<<>>, 0, 0, 0)

\* a bug exportKey could have: the per-key record is given a fixed type
keyRecordFixedType(key, keyType, ttl, size) ==
  RedisRecord(key, "key", "size=" \o FormatInt(size), ttlSeconds(ttl))

\* the per-key record of exportKey (part_001:401-409)
keyRecord(key, keyType, ttl, size) ==
  RedisRecord(key, keyType, "size=" \o FormatInt(size), ttlSeconds(ttl))

RECURSIVE SelectMatch(_, _, _, _, _)
SelectMatch(store, pattern, from, to, acc) ==
  IF from > to THEN acc
  ELSE SelectMatch(store, pattern, from + 1, to,
                   IF Match(pattern, store[from]) THEN Append(acc, store[from]) ELSE acc)

Min(a, b) == IF a < b THEN a ELSE b

\* client.Scan(ctx, cursor, pattern, batchSize).Result()
Scan(store, cursor, pattern) ==
  LET to == Min(cursor + BatchSize, Len(store))
  IN  [keys |-> SelectMatch(store, pattern, cursor + 1, to, <<>>),
       cursor |-> IF to >= Len(store) THEN 0 ELSE to]

NewExporter(mode, pattern, store) ==
  [ mode |-> mode, pattern |-> pattern, store |-> store, pc |-> "scan",
    cursor |-> 0, keys |-> <<>>, bad |-> {}, i |-> 1, members |-> <<>>, j |-> 1,
    page |-> 0, fetches |-> 0, size |-> 0, count |-> 0, ret |-> "none", fmErr |-> FALSE, closeRet |-> "none",
    scans |-> <<>>, handed |-> 0, processed |-> 0, lost |-> {}, cur |-> <<>>, out |-> <<>>,
    storeFaults |-> 0, sinkFaults |-> 0 ]

KeysOnlyMode(e) == e.mode \in {"ExportKeysOnly", "ExportKeysOnlyByPattern"}

\* the oracles a call may be given, within the budget of sink faults
Budget(e, O) == IF e.sinkFaults < MaxSinkFaults THEN O ELSE {{}}
Spend(e, F) == IF F = {} THEN e.sinkFaults ELSE e.sinkFaults + 1

ExportInit ==
  /\ \E format \in {FormatCSV, FormatParquet}, max \in MaxRecordsValues :
       fm = NewFileManager(format, max)
  /\ disk = NewDisk
  /\ hist = NewHist
  /\ \E mode \in Modes, pattern \in Patterns :
       /\ mode = "ExportKeysOnly" => pattern = "*"
       /\ ex = NewExporter(mode, pattern, StoreKeys)

\* ExportByPattern sets the pattern before the loop (part_001:327); part of
\* its first Scan step here
BeforeLoop(e, f) ==
  IF e.mode = "ExportByPattern" /\ e.scans = <<>> THEN SetMetadata(f, e.pattern, 0) ELSE f

\* a Scan call as the run's log keeps it: the cursor passed, the cursor
\* returned (-1 for an error) and the WriteRecord calls made before it
ScanEntry(used, returned, h) ==
  [used |-> used, returned |-> returned, writes |-> h.nWriteOk + h.nWriteErr]

\* a bug the loops could have: a failed Scan is tried again
ScanErrorRetry(e) == [e EXCEPT !.pc = "scan"]

\* a bug the loops could have: the return on a Scan error runs no Close
ScanErrorNoClose(e) == [e EXCEPT !.pc = "returned", !.ret = "err"]

\* the return on a Scan error (part_001:143-145, 250-252, 334-336); the
\* deferred Close runs next
ScanError(e) == [e EXCEPT !.pc = "close", !.ret = "err"]

\* the Scan at the head of the loop (part_001:142, 249, 333)
ScanStep ==
  /\ ex.pc = "scan"
  /\ \E fail \in {FALSE} \cup (IF ex.storeFaults < MaxStoreFaults THEN {TRUE} ELSE {}) :
       IF fail
       THEN ex' = ScanError([ex EXCEPT !.storeFaults = ex.storeFaults + 1,
                                       !.scans = Append(ex.scans, ScanEntry(ex.cursor, -1, hist))])
       ELSE \E r \in {Scan(ex.store, ex.cursor, ex.pattern)} :
                ex' = [ex EXCEPT !.keys = r.keys, !.cursor = r.cursor, !.i = 1, !.bad = {},
                                 !.pc = IF KeysOnlyMode(ex) THEN "pipeline" ELSE "key",
                                 !.handed = IF KeysOnlyMode(ex) THEN ex.handed ELSE ex.handed + 1,
                                 !.processed = IF KeysOnlyMode(ex) THEN ex.processed
                                               ELSE ex.processed + 1,
                                 !.scans = Append(ex.scans, ScanEntry(ex.cursor, r.cursor, hist))]
  /\ fm' = BeforeLoop(ex, fm)
  /\ UNCHANGED <<disk, hist>>

Range(q) == {q[n] : n \in 1..Len(q)}

\* TYPE and TTL are queued for every key of the batch, then pipe.Exec: it
\* returns the first error among the queued commands; on an error the loop
\* continues with the next Scan (part_001:147-163, 254-268)
PipelineStep ==
  /\ ex.pc = "pipeline"
  /\ \E bad \in {{}} \cup (IF ex.storeFaults < MaxStoreFaults
                           THEN {{k} : k \in Range(ex.keys)} ELSE {}) :
       IF bad # {}
       THEN ex' = [ex EXCEPT !.pc = "scan", !.bad = bad, !.storeFaults = ex.storeFaults + 1,
                             !.handed = ex.handed + 1,
                             !.lost = ex.lost \cup (Range(ex.keys) \ bad)]
       ELSE ex' = [ex EXCEPT !.pc = IF ex.keys = <<>> THEN "endbatch" ELSE "keys",
                             !.bad = {}, !.handed = ex.handed + 1,
                             !.processed = ex.processed + 1]
  /\ UNCHANGED <<fm, disk, hist>>

AfterKey(e) == IF e.i >= Len(e.keys) THEN "endbatch" ELSE "keys"

\* one iteration of the result loop of the keys-only modes
\* (part_001:167-202, 271-299)
KeysOnlyKeyStep ==
  /\ ex.pc = "keys"
  /\ KeysOnlyMode(ex)
  /\ \E key \in {ex.keys[ex.i]} :
         IF key \in ex.bad
         THEN /\ ex' = [ex EXCEPT !.i = ex.i + 1, !.pc = AfterKey(ex)]
              /\ UNCHANGED <<fm, disk, hist>>
         ELSE \E F \in Budget(ex, WriteOracles) :
                \E record \in {KeysOnlyRecord(key, KeyType(key), StoreTTL(key))} :
                \E r \in {WriteRecord(fm, disk, F, record)} :
                    /\ fm' = r.fm
                    /\ disk' = r.disk
                    /\ hist' = HistWrite(hist, fm, r, F, record)
                    /\ ex' = [ex EXCEPT !.i = ex.i + 1, !.pc = AfterKey(ex),
                                        !.count = IF ex.mode = "ExportKeysOnlyByPattern" \/ ~r.err
                                                  THEN ex.count + 1 ELSE ex.count,
                                        !.sinkFaults = Spend(ex, F)]

\* a bug the loops could have: the loop is left after the first batch
LoopDoneAlways(e) == TRUE

\* a bug the loop could have: the cursor is not tested after the first
\* scan, so that a sweep that ended at once is run again
LoopDoneFromSecondScan(e) == e.cursor = 0 /\ Len(e.scans) > 1

\* the test that ends the loop (part_001:211, 306, 352)
LoopDone(e) == e.cursor = 0

\* the end of the loop body: the periodic flush of the keys-only modes and
\* the test of the cursor (part_001:204-213, 301-308, 352-354)
EndBatchStep ==
  /\ ex.pc \in {"endbatch"}
  /\ \E r \in {IF KeysOnlyMode(ex) /\ ex.count % flushInterval = 0
               THEN FlushAll(fm, disk) ELSE Ret(fm, disk, FALSE, FALSE)} :
         /\ fm' = IF LoopDone(ex) /\ ex.mode = "ExportByPattern"
                  THEN SetMetadata(r.fm, ex.pattern, ex.count) ELSE r.fm
         /\ disk' = r.disk
  /\ ex' = IF LoopDone(ex) THEN [ex EXCEPT !.pc = "close", !.ret = "nil"]
           ELSE [ex EXCEPT !.pc = "scan"]
  /\ UNCHANGED hist

NextKey(e) == IF e.i >= Len(e.keys) THEN "endbatch" ELSE "key"

\* what exportKey did for a key: the records WriteRecord accepted and
\* whether exportKey returned an error (the key is counted when it did not)
Outcome(key, records, err) ==
  [key |-> key, type |-> KeyType(key), records |-> records, err |-> err]

\* exportKey up to its first write: TYPE, TTL and the fetch of the value
\* (part_001:377-399); an error skips the key (part_001:340-343)
ExportKeyStep ==
  /\ ex.pc = "key"
  /\ IF ex.keys = <<>>
     THEN ex' = [ex EXCEPT !.pc = "endbatch"]
     ELSE \E fail \in {FALSE} \cup (IF ex.storeFaults < MaxStoreFaults THEN {TRUE} ELSE {}) :
            IF fail
            THEN ex' = [ex EXCEPT !.i = ex.i + 1, !.pc = NextKey(ex),
                                  !.storeFaults = ex.storeFaults + 1,
                                  !.out = Append(ex.out, Outcome(ex.keys[ex.i], <<>>, TRUE))]
            ELSE \E data \in {exportKeyData(ex.keys[ex.i], KeyType(ex.keys[ex.i]))} :
                   ex' = [ex EXCEPT !.members = data.records, !.size = data.size, !.j = 1,
                                    !.page = data.page, !.fetches = data.fetches,
                                    !.cur = <<>>,
                                    !.pc = IF data.records = <<>> THEN "keyrec" ELSE "member"]
  /\ UNCHANGED <<fm, disk, hist>>

\* one WriteRecord of exportKeyData (part_001:444, 480, 518, 563); its
\* error ends exportKey
MemberStep ==
  /\ ex.pc = "member"
  /\ \E F \in Budget(ex, WriteOracles) :
       \E record \in {ex.members[ex.j]} : \E r \in {WriteRecord(fm, disk, F, record)} :
           /\ fm' = r.fm
           /\ disk' = r.disk
           /\ hist' = HistWrite(hist, fm, r, F, record)
           /\ ex' = IF r.err
                    THEN [ex EXCEPT !.i = ex.i + 1, !.pc = NextKey(ex), !.sinkFaults = Spend(ex, F),
                                    !.out = Append(ex.out, Outcome(ex.keys[ex.i], ex.cur, TRUE))]
                    ELSE [ex EXCEPT !.j = ex.j + 1, !.sinkFaults = Spend(ex, F),
                                    !.cur = Append(ex.cur, record),
                                    !.pc = IF ex.j >= Len(ex.members) THEN "keyrec" ELSE "member"]

\* a page of the key is due: the records of the pages before it are written
\* and the cursor loop asks the store for the next one, which may hold no
\* complete pair
PageDue(e) ==
  /\ e.page > 0
  /\ \/ e.pc = "member" /\ e.j > 1 /\ (e.j - 1) % e.page = 0
     \/ e.pc = "keyrec" /\ e.members # <<>> /\ e.fetches > CeilDiv(Len(e.members), e.page)

\* SScan, HScan, ZScan or LRange fails on a later page (part_001:432, 464,
\* 502, 551): exportKeyData returns the error after the records of the
\* pages before, and the key is skipped
PageFetchFailStep ==
  /\ PageDue(ex)
  /\ ex.storeFaults < MaxStoreFaults
  /\ ex' = [ex EXCEPT !.i = ex.i + 1, !.pc = NextKey(ex),
                      !.storeFaults = ex.storeFaults + 1,
                      !.out = Append(ex.out, Outcome(ex.keys[ex.i], ex.cur, TRUE))]
  /\ UNCHANGED <<fm, disk, hist>>

\* the per-key record that ends exportKey (part_001:401-411), then the
\* count and the flush of ExportByPattern (part_001:340-349)
KeyRecordStep ==
  /\ ex.pc = "keyrec"
  /\ \E F \in Budget(ex, WriteOracles) :
       \E record \in {keyRecord(ex.keys[ex.i], KeyType(ex.keys[ex.i]),
                                StoreTTL(ex.keys[ex.i]), ex.size)} :
       \E r \in {WriteRecord(fm, disk, F, record)} :
       \E count \in {IF r.err THEN ex.count ELSE ex.count + 1} :
       \E rf \in {IF ~r.err /\ count % 100 = 0 THEN FlushAll(r.fm, r.disk) ELSE r} :
           /\ fm' = rf.fm
           /\ disk' = rf.disk
           /\ hist' = HistWrite(hist, fm, r, F, record)
           /\ ex' = [ex EXCEPT !.i = ex.i + 1, !.pc = NextKey(ex), !.count = count,
                               !.sinkFaults = Spend(ex, F),
                               !.out = Append(ex.out,
                                              Outcome(ex.keys[ex.i],
                                                      IF r.err THEN ex.cur
                                                      ELSE Append(ex.cur, record), r.err))]

\* the deferred RedisExporter.Close (part_001:120-125, 129-131): the error
\* of FileManager.Close is logged, Close returns what client.Close returns,
\* and the deferred call drops that result: the export method returns what
\* its return statement said
ExporterCloseStep ==
  /\ ex.pc = "close"
  /\ \E F \in Budget(ex, CloseOracles) :
       \E clientErr \in {FALSE} \cup (IF ex.storeFaults < MaxStoreFaults THEN {TRUE} ELSE {}) :
       \E r \in {Close(fm, disk, F)} :
           /\ fm' = r.fm
           /\ disk' = r.disk
           /\ hist' = HistOther(hist, "close", fm, r, F)
           /\ ex' = [ex EXCEPT !.pc = "returned", !.sinkFaults = Spend(ex, F),
                               !.fmErr = r.err,
                               !.closeRet = IF clientErr THEN "err" ELSE "nil",
                               !.storeFaults = IF clientErr THEN ex.storeFaults + 1
                                               ELSE ex.storeFaults]

\* every collection of StoreKeys fits one page
ExportNext ==
  \/ ScanStep \/ PipelineStep \/ KeysOnlyKeyStep \/ EndBatchStep
  \/ ExportKeyStep \/ MemberStep \/ KeyRecordStep \/ ExporterCloseStep

ExportSpec == ExportInit /\ [][ExportNext]_vars

\* one thread runs the export and every store and sink call returns, so a
\* step that can be taken is taken
FairExportSpec == ExportInit /\ [][ExportNext]_vars /\ WF_vars(ExportNext)

\* ExportByPattern alone, over each of the small key spaces
FullDataInit ==
  /\ \E format \in {FormatCSV, FormatParquet}, max \in MaxRecordsValues :
       fm = NewFileManager(format, max)
  /\ disk = NewDisk
  /\ hist = NewHist
  /\ \E pattern \in Patterns, store \in Stores :
       ex = NewExporter("ExportByPattern", pattern, store)

FullDataNext ==
  \/ ScanStep \/ EndBatchStep \/ ExportKeyStep \/ MemberStep \/ PageFetchFailStep
  \/ KeyRecordStep \/ ExporterCloseStep

FullDataSpec == FullDataInit /\ [][FullDataNext]_vars

\* ------------------------------------------- the two encoders side by side
\* the same WriteRecord calls, then Close, on a csv sink (fm, disk) and on a
\* parquet sink (ex.fm, ex.disk) with the same MaxRecords; no call fails
ParityRecords ==
  { RedisRecord("test:key1", "string", "value1", 60),
    RedisRecord("test:key2", "hash", "{}", -1),
    RedisRecord("test:key3", "set", "member1", 7) }

ParityInit ==
  /\ disk = NewDisk
  /\ hist = NewHist
  /\ \E max \in MaxRecordsValues :
       /\ fm = NewFileManager(FormatCSV, max)
       /\ ex = [mode |-> "parity", pc |-> "open", err |-> FALSE,
                fm |-> NewFileManager(FormatParquet, max), disk |-> NewDisk]

ParityWriteRecord ==
  /\ ex.pc = "open"
  /\ hist.calls < MaxCalls
  /\ \E record \in ParityRecords :
       \E r \in {WriteRecord(fm, disk, {}, record)} :
       \E q \in {WriteRecord(ex.fm, ex.disk, {}, record)} :
           /\ fm' = r.fm
           /\ disk' = r.disk
           /\ hist' = HistWrite(hist, fm, r, {}, record)
           /\ ex' = [ex EXCEPT !.fm = q.fm, !.disk = q.disk, !.err = q.err]

ParityClose ==
  /\ ex.pc = "open"
  /\ \E r \in {Close(fm, disk, {})} :
     \E q \in {Close(ex.fm, ex.disk, {})} :
         /\ fm' = r.fm
         /\ disk' = r.disk
         /\ hist' = HistOther(hist, "close", fm, r, {})
         /\ ex' = [ex EXCEPT !.fm = q.fm, !.disk = q.disk, !.err = q.err, !.pc = "closed"]

ParityNext == ParityWriteRecord \/ ParityClose

ParitySpec == ParityInit /\ [][ParityNext]_vars

\* a data file read back as logical rows: the csv file without its header
\* row and with the integer columns parsed, the parquet file as it is
ReadCSV(file) == [n \in 1..(Len(file) - 1) |-> ReadCSVRow(file[n + 1])]
ReadParquet(file) == file

\* ------------------------------------------------------- NewRedisExporter
\* redis.ParseURL accepts the schemes redis, rediss and unix
RedisURLs == {[scheme |-> "redis", addr |-> "localhost:6379"],
              [scheme |-> "rediss", addr |-> "localhost:6380"],
              [scheme |-> "http", addr |-> "localhost:6379"]}
ParseURL(url) == url.scheme \in {"redis", "rediss", "unix"}

OutputFormats == {"parquet", "csv", "", "json"}

\* a bug NewRedisExporter could have: an unknown format name means csv
ParseOutputFormatDefaultCSV(name) ==
  CASE name = "parquet" -> [ok |-> TRUE, format |-> FormatParquet]
    [] OTHER -> [ok |-> TRUE, format |-> FormatCSV]

\* the switch on opts.OutputFormat (part_001:93-101)
ParseOutputFormat(name) ==
  CASE name = "parquet" -> [ok |-> TRUE, format |-> FormatParquet]
    [] name \in {"csv", ""} -> [ok |-> TRUE, format |-> FormatCSV]
    [] OTHER -> [ok |-> FALSE, format |-> FormatInvalid]

RedisExporterOptions ==
  [RedisURL : RedisURLs, OutputFormat : OutputFormats,
   MaxRecordsPerFile : MaxRecordsValues, BatchSize : {BatchSize}]

NilExporter == [nil |-> TRUE]
NoFileManager == [nil |-> TRUE]

\* what the constructor returns and leaves behind: the exporter, the error,
\* the client it created and whether the output directory now exists
Built(exporter, err, client, outputDir) ==
  [exporter |-> exporter, err |-> err, client |-> client, outputDir |-> outputDir]

\* NewRedisExporter with the outcomes of Ping and of MkdirAll; the client
\* created before a failure is not closed
NewRedisExporter(opts, pingOk, mkdirOk) ==
  IF ~ParseURL(opts.RedisURL) THEN Built(NilExporter, "failed to parse Redis URL", "nil", FALSE)
  ELSE IF ~pingOk THEN Built(NilExporter, "failed to connect to Redis", "open", FALSE)
  ELSE IF ~mkdirOk THEN Built(NilExporter, "failed to create output directory", "open", FALSE)
  ELSE IF ~ParseOutputFormat(opts.OutputFormat).ok
       THEN Built(NilExporter, "unsupported output format", "open", TRUE)
       ELSE Built([nil |-> FALSE,
                   fileManager |-> NewFileManager(ParseOutputFormat(opts.OutputFormat).format,
                                                  opts.MaxRecordsPerFile),
                   batchSize |-> opts.BatchSize, flushInterval |-> flushInterval],
                  "nil", "open", TRUE)

SetupInit ==
  /\ fm = NoFileManager
  /\ disk = NewDisk
  /\ hist = NewHist
  /\ \E opts \in RedisExporterOptions, pingOk \in BOOLEAN, mkdirOk \in BOOLEAN :
       ex = [mode |-> "setup", pc |-> "new", opts |-> opts, pingOk |-> pingOk,
             mkdirOk |-> mkdirOk, exporter |-> NilExporter, err |-> "nil",
             client |-> "nil", outputDir |-> FALSE, closeRet |-> "none"]

NewRedisExporterStep ==
  /\ ex.pc = "new"
  /\ \E r \in {NewRedisExporter(ex.opts, ex.pingOk, ex.mkdirOk)} :
       /\ ex' = [ex EXCEPT !.pc = IF r.err = "nil" THEN "ready" ELSE "failed",
                           !.exporter = r.exporter, !.err = r.err,
                           !.client = r.client, !.outputDir = r.outputDir]
       /\ fm' = IF r.err = "nil" THEN r.exporter.fileManager ELSE fm
  /\ UNCHANGED <<disk, hist>>

\* RedisExporter.Close on an exporter that exported nothing
SetupCloseStep ==
  /\ ex.pc = "ready"
  /\ \E F \in AtMostOne(MetaPoints), clientErr \in BOOLEAN :
       \E r \in {Close(fm, disk, F)} :
           /\ fm' = r.fm
           /\ disk' = r.disk
           /\ hist' = HistOther(hist, "close", fm, r, F)
           /\ ex' = [ex EXCEPT !.pc = "closed", !.client = "closed",
                               !.closeRet = IF clientErr THEN "err" ELSE "nil"]

SetupNext == NewRedisExporterStep \/ SetupCloseStep

SetupSpec == SetupInit /\ [][SetupNext]_vars

\* ------------------------------------------- the list branch on long lists
\* lists shorter and longer than the chunk of the LRANGE loop
MaxShortList == 3
ListLengths ==
  (0..MaxShortList) \cup {chunkSize - 1, chunkSize, chunkSize + 1, 2 * chunkSize,
                          2 * chunkSize + 1}
ListKeys == {"queue", "jobs", "log"}

\* the i-th element of a list whose elements are their own position, all the
\* same, or alternate
Element(kind, i) ==
  CASE kind = "position" -> FormatInt(i)
    [] kind = "same" -> "v"
    [] OTHER -> IF i % 2 = 0 THEN "a" ELSE "b"

ListOf(kind, length) == [i \in 1..length |-> Element(kind, i)]

ListInit ==
  /\ fm = NoFileManager
  /\ disk = NewDisk
  /\ hist = NewHist
  /\ \E key \in ListKeys, kind \in {"position", "same", "alternate"}, length \in ListLengths :
       ex = [mode |-> "list", pc |-> "input", key |-> key, values |-> ListOf(kind, length),
             records |-> <<>>]

\* the list branch of exportKeyData with every call succeeding: the records
\* handed to WriteRecord, in order
ListStep ==
  /\ ex.pc = "input"
  /\ ex' = [ex EXCEPT !.pc = "flattened", !.records = ListRecords(ex.key, ex.values, 0)]
  /\ UNCHANGED <<fm, disk, hist>>

ListSpec == ListInit /\ [][ListStep]_vars

\* ------------------------------ the two keys-only methods, side by side
\* run a is ExportKeysOnly(), run b is ExportKeysOnlyByPattern("*"), on the
\* same store and configuration; every step is taken by both with the same
\* store and sink failures.  Each variable holds the two runs' values.
TwinStores == {StoreKeys} \cup Stores

\* a bug ExportKeysOnly could have: it scans with another pattern
KeysOnlyPatternUsers == "user:*"

\* the pattern ExportKeysOnly passes to Scan (part_001:142)
KeysOnlyPattern == "*"

\* the pattern of the Scan call of a keys-only method (part_001:142, 249)
ScanPattern(e) == IF e.mode = "ExportKeysOnly" THEN KeysOnlyPattern ELSE e.pattern

\* one run: its sink, its disk, its log and its exporter
RunOf(x) == [fm |-> fm[x], disk |-> disk[x], hist |-> hist[x], ex |-> ex[x]]

\* the Scan at the head of the loop and the return on its error
\* (part_001:142-145, 249-252)
RunScan(r, fail) ==
  IF fail
  THEN [r EXCEPT !.ex = ScanError([r.ex EXCEPT !.storeFaults = r.ex.storeFaults + 1])]
  ELSE Bind(Scan(r.ex.store, r.ex.cursor, ScanPattern(r.ex)), LAMBDA s :
         [r EXCEPT !.ex = [r.ex EXCEPT !.keys = s.keys, !.cursor = s.cursor, !.i = 1,
                                       !.bad = {}, !.pc = "pipeline"]])

\* the pipeline of TYPE and TTL and its Exec (part_001:147-163, 254-268)
RunPipeline(r, bad) ==
  IF bad # {}
  THEN [r EXCEPT !.ex = [r.ex EXCEPT !.pc = "scan", !.bad = bad,
                                     !.storeFaults = r.ex.storeFaults + 1]]
  ELSE [r EXCEPT !.ex = [r.ex EXCEPT !.pc = IF r.ex.keys = <<>> THEN "endbatch" ELSE "keys",
                                     !.bad = {}]]

\* one iteration of the result loop: ExportKeysOnly logs the error of
\* WriteRecord and continues before count++ (part_001:196-200),
\* ExportKeysOnlyByPattern discards it and counts the key (part_001:297-298)
RunKey(r, F) ==
  IF r.ex.keys[r.ex.i] \in r.ex.bad
  THEN [r EXCEPT !.ex = [r.ex EXCEPT !.i = r.ex.i + 1, !.pc = AfterKey(r.ex)]]
  ELSE Bind(KeysOnlyRecord(r.ex.keys[r.ex.i], KeyType(r.ex.keys[r.ex.i]),
                           StoreTTL(r.ex.keys[r.ex.i])), LAMBDA record :
       Bind(WriteRecord(r.fm, r.disk, F, record), LAMBDA w :
         [fm |-> w.fm, disk |-> w.disk, hist |-> HistWrite(r.hist, r.fm, w, F, record),
          ex |-> [r.ex EXCEPT !.i = r.ex.i + 1, !.pc = AfterKey(r.ex),
                              !.count = IF r.ex.mode = "ExportKeysOnlyByPattern" \/ ~w.err
                                        THEN r.ex.count + 1 ELSE r.ex.count,
                              !.sinkFaults = Spend(r.ex, F)]]))

\* the flush every flushInterval keys and the end of the loop
\* (part_001:204-217, 301-312)
RunEndBatch(r) ==
  Bind(IF r.ex.count % flushInterval = 0 THEN FlushAll(r.fm, r.disk)
       ELSE Ret(r.fm, r.disk, FALSE, FALSE), LAMBDA q :
    [r EXCEPT !.fm = q.fm, !.disk = q.disk,
              !.ex = IF LoopDone(r.ex) THEN [r.ex EXCEPT !.pc = "close", !.ret = "nil"]
                     ELSE [r.ex EXCEPT !.pc = "scan"]])

\* the deferred RedisExporter.Close (part_001:120-125, 129-131, 237-239)
RunClose(r, F, clientErr) ==
  Bind(Close(r.fm, r.disk, F), LAMBDA c :
    [fm |-> c.fm, disk |-> c.disk, hist |-> HistOther(r.hist, "close", r.fm, c, F),
     ex |-> [r.ex EXCEPT !.pc = "returned", !.sinkFaults = Spend(r.ex, F), !.fmErr = c.err,
                         !.closeRet = IF clientErr THEN "err" ELSE "nil",
                         !.storeFaults = IF clientErr THEN r.ex.storeFaults + 1
                                         ELSE r.ex.storeFaults]])

\* both runs have taken their step
Both(ra, rb) ==
  /\ fm' = [a |-> ra.fm, b |-> rb.fm]
  /\ disk' = [a |-> ra.disk, b |-> rb.disk]
  /\ hist' = [a |-> ra.hist, b |-> rb.hist]
  /\ ex' = [a |-> ra.ex, b |-> rb.ex]

\* both methods are at the same statement
TwinAt(pc) == ex.a.pc = pc /\ ex.b.pc = pc

TwinInit ==
  /\ \E format \in {FormatCSV, FormatParquet}, max \in MaxRecordsValues :
       fm = [a |-> NewFileManager(format, max), b |-> NewFileManager(format, max)]
  /\ disk = [a |-> NewDisk, b |-> NewDisk]
  /\ hist = [a |-> NewHist, b |-> NewHist]
  /\ \E store \in TwinStores :
       ex = [a |-> NewExporter("ExportKeysOnly", "", store),
             b |-> NewExporter("ExportKeysOnlyByPattern", "*", store)]

TwinScanStep ==
  /\ TwinAt("scan")
  /\ \E fail \in {FALSE} \cup (IF ex.a.storeFaults < MaxStoreFaults THEN {TRUE} ELSE {}) :
       \E ra \in {RunScan(RunOf("a"), fail)} : \E rb \in {RunScan(RunOf("b"), fail)} :
         Both(ra, rb)

TwinPipelineStep ==
  /\ TwinAt("pipeline")
  /\ \E bad \in {{}} \cup (IF ex.a.storeFaults < MaxStoreFaults
                           THEN {{k} : k \in Range(ex.a.keys)} ELSE {}) :
       \E ra \in {RunPipeline(RunOf("a"), bad)} : \E rb \in {RunPipeline(RunOf("b"), bad)} :
         Both(ra, rb)

TwinKeyStep ==
  /\ TwinAt("keys")
  /\ \E F \in Budget(ex.a, WriteOracles) :
       \E ra \in {RunKey(RunOf("a"), F)} : \E rb \in {RunKey(RunOf("b"), F)} :
         Both(ra, rb)

TwinEndBatchStep ==
  /\ TwinAt("endbatch")
  /\ \E ra \in {RunEndBatch(RunOf("a"))} : \E rb \in {RunEndBatch(RunOf("b"))} :
       Both(ra, rb)

TwinCloseStep ==
  /\ TwinAt("close")
  /\ \E F \in Budget(ex.a, CloseOracles) :
       \E clientErr \in {FALSE} \cup (IF ex.a.storeFaults < MaxStoreFaults THEN {TRUE} ELSE {}) :
       \E ra \in {RunClose(RunOf("a"), F, clientErr)} :
       \E rb \in {RunClose(RunOf("b"), F, clientErr)} :
         Both(ra, rb)

TwinNext ==
  \/ TwinScanStep \/ TwinPipelineStep \/ TwinKeyStep \/ TwinEndBatchStep \/ TwinCloseStep

TwinSpec == TwinInit /\ [][TwinNext]_vars

\* ------------------------------------------------------------------ claims
Supported(f) == f.Format \in {FormatCSV, FormatParquet}
OpenCount(f) == IF IsOpen(f) THEN 1 ELSE 0
OnlyGoodWrites(h) == ~h.failed /\ h.nRotateCalls = 0 /\ h.nCloseCalls = 0

\* C1: with a supported format and MaxRecords = M >= 1, after N WriteRecord
\* calls that all succeeded (and no other rotation or close), the completed
\* partitions plus the open one number ceil(N / M).
C1_PartitionCount ==
  (Supported(fm) /\ fm.MaxRecords >= 1 /\ OnlyGoodWrites(hist))
    => Len(fm.Partitions) + OpenCount(fm) = CeilDiv(hist.nWriteOk, fm.MaxRecords)

C1_Witness ==
  /\ Supported(fm) /\ fm.MaxRecords = 2 /\ OnlyGoodWrites(hist)
  /\ hist.nWriteOk = 3 /\ Len(fm.Partitions) = 1 /\ IsOpen(fm)

\* C2: every partition entry appended to Run Metadata has
\* record_count <= MaxRecords, for every MaxRecords value (0 included).
C2_RecordCountWithinMax ==
  \A i \in 1..Len(fm.Partitions) : fm.Partitions[i].RecordCount <= fm.MaxRecords

\* C3: after WriteRecord calls followed by a Close that returns nil, the
\* record_counts of the written Run Metadata add up to the number of
\* WriteRecord calls that returned nil.
C3_MetadataComplete ==
  (hist.last.op = "close" /\ ~hist.last.err /\ hist.nCloseCalls = 1 /\ hist.nRotateCalls = 0)
    => (disk.metaValid /\ SumCounts(disk.metaParts) = hist.nWriteOk)

\* C4: closing a FileManager that received no WriteRecord call succeeds
\* (it fails only when the metadata file itself cannot be created or
\* encoded), writes a metadata file with an empty partitions list, leaves
\* the partition id at 0 and creates no data file and no partition directory.
C4_EmptyRunClose ==
  (hist.nWriteOk + hist.nWriteErr = 0 /\ hist.last.op = "close")
    => /\ fm.partitionID = 0
       /\ fm.Partitions = <<>>
       /\ ~IsOpen(fm)
       /\ DOMAIN disk.files = {}
       /\ ~disk.dir
       /\ (hist.last.err <=> hist.last.metaFault)
       /\ (~hist.last.err => disk.metaExists /\ disk.metaValid /\ disk.metaParts = <<>>)

C4_Witness ==
  /\ hist.nWriteOk + hist.nWriteErr = 0 /\ hist.last.op = "close" /\ ~hist.last.err
  /\ disk.metaValid /\ disk.metaParts = <<>> /\ disk.metaWrites = 1

\* C5: a WriteRecord call moves on to the next partition exactly when the
\* record count at the start of the call is >= MaxRecords, whatever else
\* holds; the partition that held records is completed (its entry, with
\* the count before the call, appended) and the next one opened before the
\* record is written, so the record is the first one of the new partition;
\* the write that brings the count up to MaxRecords does not rotate.
C5_RotateOnThreshold ==
  hist.last.op = "write" =>
    LET c == hist.last
        lazy == IF c.startOpen THEN 0 ELSE 1
        due == c.startCount >= fm.MaxRecords
    IN  /\ c.rot => due
        /\ ~c.err =>
             /\ fm.partitionID = c.startPid + lazy + (IF due THEN 1 ELSE 0)
             /\ fm.recordCount = (IF due THEN 1 ELSE c.startCount + 1)
             /\ LastRow(fm).partition_id = fm.partitionID
             /\ (c.rot <=> (due /\ c.startCount > 0))
             /\ c.rot => fm.Partitions[Len(fm.Partitions)] =
                           [PartitionID |-> c.startPid, FileName |-> c.startPid,
                            RecordCount |-> c.startCount]
             /\ (c.startCount + 1 = fm.MaxRecords) => (~c.rot /\ fm.recordCount = fm.MaxRecords)

C5_Witness ==
  /\ hist.last.op = "write" /\ ~hist.last.err /\ hist.last.rot
  /\ fm.MaxRecords = 2 /\ hist.last.startCount = 2 /\ fm.recordCount = 1
  /\ Len(fm.Partitions) = 1

\* C6: with a format that is neither csv nor parquet every WriteRecord call
\* returns an error, no row reaches a writer and no data file is created.
C6_InvalidFormatWritesNothing ==
  ~Supported(fm) =>
    /\ hist.nWriteOk = 0
    /\ hist.written = <<>>
    /\ DOMAIN disk.files = {}
    /\ fm.csvBuf = <<>>
    /\ fm.dbRows = <<>>

C6_Witness == ~Supported(fm) /\ hist.nWriteErr >= 2 /\ hist.last.op = "write" /\ hist.last.err

\* C7: the partition_id column of successively written records never
\* decreases, and a record written after a rotation has a partition_id
\* greater than that of every record written before the rotation.
C7_PartitionIdMonotone ==
  \A i, j \in 1..Len(hist.written) :
    i < j => /\ hist.written[i].partition_id <= hist.written[j].partition_id
             /\ (hist.written[i].epoch < hist.written[j].epoch
                   => hist.written[i].partition_id < hist.written[j].partition_id)

C7_Witness ==
  /\ Len(hist.written) >= 3
  /\ hist.written[1].epoch < hist.written[Len(hist.written)].epoch
  /\ hist.written[1].epoch = hist.written[2].epoch

\* C8: when WriteRecord returns an error during an export, the export stops
\* and returns an error; it does not go on with the following keys.
C8_SinkErrorAborts ==
  hist.nWriteErr > 0 => (ex.pc \in {"close", "returned"} /\ ex.ret = "err")

\* C9: the first Scan uses cursor 0, each later Scan uses the cursor the
\* previous Scan returned, and after a Scan has returned cursor 0 no
\* further Scan is issued in the run.
C9_SingleSweep ==
  \A n \in 1..Len(ex.scans) :
    /\ n = 1 => ex.scans[n].used = 0
    /\ n > 1 => ex.scans[n].used = ex.scans[n - 1].returned
    /\ n < Len(ex.scans) => ex.scans[n].returned # 0

\* C10: with a finite key space, every call returning and finitely many
\* calls failing, the export method eventually returns; when the loop ran
\* to its end (no Scan error), a Scan has returned cursor 0 and every batch
\* that Scan returned was handed to the per-key stage (TYPE and TTL queued
\* for each key, or exportKey called for each key).
SuccessfulScans(e) == Cardinality({n \in 1..Len(e.scans) : e.scans[n].returned # -1})

SweepDone(e) ==
  /\ e.scans # <<>>
  /\ e.scans[Len(e.scans)].returned = 0
  /\ e.handed = SuccessfulScans(e)
  /\ e.handed = Len(e.scans)

ScanFailed(e) == e.scans # <<>> /\ e.scans[Len(e.scans)].returned = -1

C11_ScanErrorReturnsAtOnce ==
  /\ \A n \in 1..(Len(ex.scans) - 1) : ex.scans[n].returned # -1
  /\ ScanFailed(ex) =>
       /\ ex.ret = "err"
       /\ ex.pc \in {"close", "returned"}
       /\ hist.nWriteOk + hist.nWriteErr = ex.scans[Len(ex.scans)].writes

C11_Witness ==
  /\ ScanFailed(ex) /\ ex.pc = "returned" /\ ex.ret = "err"
  /\ Len(ex.scans) >= 2 /\ hist.nWriteOk >= 1

\* C12: in the keys-only modes a failed TYPE or TTL lookup of one key
\* skips that key only: no key of the batch whose lookups succeeded is
\* dropped with the batch.
C12_OnlyFailedKeySkipped == KeysOnlyMode(ex) => ex.lost = {}

\* C13: in each export mode one call of the export method finalizes Run
\* Metadata exactly once on every path out (normal completion, empty key
\* space, Scan error): nothing is finalized before the method returns, and
\* at the return FileManager.Close has run once, end_time is set and
\* export_metadata.json has been written once with the partitions list,
\* unless creating or encoding the file itself failed.
C13_MetadataFinalizedOnce ==
  /\ ex.pc # "returned" =>
       /\ hist.nCloseCalls = 0 /\ fm.EndTime = "zero"
       /\ disk.metaWrites = 0 /\ ~disk.metaExists
  /\ ex.pc = "returned" =>
       /\ hist.nCloseCalls = 1 /\ fm.EndTime = "set"
       /\ ~hist.last.metaFault =>
            /\ disk.metaWrites = 1 /\ disk.metaValid
            /\ disk.metaEndTime = "set" /\ disk.metaParts = fm.Partitions

C13_Witness ==
  /\ ex.pc = "returned" /\ ex.ret = "err" /\ ex.mode = "ExportByPattern"
  /\ disk.metaWrites = 1 /\ disk.metaValid /\ Len(disk.metaParts) >= 1

\* C14: when creating or encoding export_metadata.json fails at close,
\* RedisExporter.Close returns an error and so does the export method.
C14_MetadataFailureSurfaced ==
  (ex.pc = "returned" /\ hist.last.metaFault) => (ex.closeRet = "err" /\ ex.ret = "err")

\* what a written record says: key, type and value
KTV(rec) == [Key |-> rec.Key, Type |-> rec.Type, Value |-> rec.Value]

RECURSIVE OutRecords(_)
OutRecords(out) ==
  IF out = <<>> THEN <<>>
  ELSE [n \in 1..Len(out[1].records) |-> KTV(out[1].records[n])] \o OutRecords(Tail(out))

\* the records of the key exportKey is working on
CurrentKey == IF ex.pc \in {"member", "keyrec"} THEN <<[records |-> ex.cur]>> ELSE <<>>

\* the records exportKey handed to the sink are the rows the sink wrote
WrittenIsOut ==
  [n \in 1..Len(hist.written) |-> KTV(hist.written[n])] = OutRecords(ex.out \o CurrentKey)

\* C15: in full-data mode a key of type string yields exactly one record,
\* with key = the store key, type = string and value = the content of the
\* key.
C15_StringRecordHoldsContent ==
  \A n \in 1..Len(ex.out) :
    (ex.out[n].type = "string" /\ ~ex.out[n].err) =>
      /\ Len(ex.out[n].records) = 1
      /\ KTV(ex.out[n].records[1]) =
           [Key |-> ex.out[n].key, Type |-> "string", Value |-> Get(ex.out[n].key)]

\* C16 as the spec states it: every record written in full-data mode has a
\* non-empty key and a type in {string, hash_field, set_member,
\* zset_member, list_item}.
FlatTypes == {"string", "hash_field", "set_member", "zset_member", "list_item"}

C16_TypeInClosedSet ==
  \A n \in 1..Len(hist.written) :
    hist.written[n].Key # "" /\ hist.written[n].Type \in FlatTypes

\* C16, amended: every record written in full-data mode has a non-empty
\* key (the store keys being non-empty); the records of a key's members
\* have a type in {hash_field, set_member, zset_member, list_item}, and the
\* per-key record that ends a key's export carries the type the store
\* reported for the key, whatever it is.
MemberTypes == {"hash_field", "set_member", "zset_member", "list_item"}

C16_MemberOrStoreType ==
  /\ WrittenIsOut
  /\ \A n \in 1..Len(hist.written) : hist.written[n].Key # ""
  /\ \A n \in 1..Len(ex.out) : \A m \in 1..Len(ex.out[n].records) :
       IF m = Len(ex.out[n].records) /\ ~ex.out[n].err
       THEN ex.out[n].records[m].Type = ex.out[n].type
       ELSE ex.out[n].records[m].Type \in MemberTypes

C16_Witness ==
  /\ ex.pc = "returned" /\ hist.nWriteErr = 0
  /\ \E n \in 1..Len(hist.written) : hist.written[n].Type = "zset"
  /\ \E n \in 1..Len(hist.written) : hist.written[n].Type = "list_item"

\* the fields of a hash reply, in order, as records of the claim's form
FieldRecords(key, fields) ==
  [n \in 1..(Len(fields) \div 2) |->
     [Key |-> key \o ":field:" \o fields[2 * n - 1], Type |-> "hash_field",
      Value |-> fields[2 * n]]]

RECURSIVE SumLen(_)
SumLen(reply) == IF reply = <<>> THEN 0 ELSE Len(reply[1]) + SumLen(Tail(reply))

\* the fields of a reply with their values: its complete pairs
Paired(reply) == SubSeq(reply, 1, 2 * (Len(reply) \div 2))

HashDone(o) == o.type = "hash" /\ ~o.err

\* C17 as the spec states it: flattening a hash key k with n fields yields
\* exactly n records, one hash_field record per field with key
\* k:field:<field> and the field's content as value.
C17_HashYieldsFieldRecords ==
  \A n \in 1..Len(ex.out) :
    HashDone(ex.out[n]) =>
      [m \in 1..Len(ex.out[n].records) |-> KTV(ex.out[n].records[m])]
        = FieldRecords(ex.out[n].key, HScan(ex.out[n].key))

\* C17, amended: flattening a hash key k with n fields yields exactly n + 1
\* records: one hash_field record per field, in the order of the sub-scan,
\* with key k:field:<field> and the field's content as value, then the
\* per-key record (k, hash, size=<summed length of fields and values>).
C17_HashYieldsFieldsAndKeyRecord ==
  \A n \in 1..Len(ex.out) :
    HashDone(ex.out[n]) =>
      [m \in 1..Len(ex.out[n].records) |-> KTV(ex.out[n].records[m])]
        = Append(FieldRecords(ex.out[n].key, HScan(ex.out[n].key)),
                 [Key |-> ex.out[n].key, Type |-> "hash",
                  Value |-> "size=" \o FormatInt(SumLen(Paired(HScan(ex.out[n].key))))])

C17_Witness ==
  \E n \in 1..Len(ex.out) :
    /\ HashDone(ex.out[n]) /\ Len(ex.out[n].records) = 3
    /\ ex.out[n].records[2].Key = "user:1:field:age" /\ ex.out[n].records[2].Value = "7"

KnownTypes == {"string", "hash", "set", "zset", "list"}

Exported(out) == {n \in 1..Len(out) : ~out[n].err}

\* C18 as the spec states it: a key whose store type is not string, hash,
\* set, zset or list produces no record and is not counted as exported.
C18_UnknownTypeSkipped ==
  /\ \A n \in 1..Len(ex.out) : ex.out[n].type \notin KnownTypes => ex.out[n].records = <<>>
  /\ ex.count = Cardinality({n \in Exported(ex.out) : ex.out[n].type \in KnownTypes})

\* C18, amended: a key whose store type is not string, hash, set, zset or
\* list produces exactly one record, the per-key record with the type the
\* store reported and value size=0, and is counted as an exported key (no
\* record and no count when its lookups or that one write fail); the run
\* continues with the next key.
C18_UnknownTypeKeyRecordOnly ==
  /\ \A n \in 1..Len(ex.out) :
       ex.out[n].type \notin KnownTypes =>
         IF ex.out[n].err THEN ex.out[n].records = <<>>
         ELSE [m \in 1..Len(ex.out[n].records) |-> KTV(ex.out[n].records[m])]
                = <<[Key |-> ex.out[n].key, Type |-> ex.out[n].type, Value |-> "size=0"]>>
  /\ ex.count = Cardinality(Exported(ex.out))
  /\ (ex.pc = "returned" /\ ex.ret = "nil") =>
       [n \in 1..Len(ex.out) |-> ex.out[n].key]
         = SelectMatch(ex.store, ex.pattern, 1, Len(ex.store), <<>>)

C18_Witness ==
  /\ ex.pc = "returned" /\ ex.ret = "nil" /\ ex.count = 2 /\ Len(ex.out) = 2
  /\ ex.out[1].type = "stream" /\ ~ex.out[1].err /\ Len(ex.out[1].records) = 1
  /\ ex.out[2].key = "tags"

\* C19: for every key, in all three export modes, the ttl_seconds of the
\* record that carries the key is -1 when the store reports a TTL <= 0 and
\* otherwise the TTL cut down to whole seconds.
WholeSeconds(ttl) == CHOOSE n \in 0..64 : n * Second <= ttl /\ ttl < (n + 1) * Second

C19_TTLNormalised ==
  \A n \in 1..Len(hist.written) :
    hist.written[n].Key \in Range(StoreKeys) =>
      hist.written[n].ttl_seconds =
        (IF StoreTTL(hist.written[n].Key) <= 0 THEN -1
         ELSE WholeSeconds(StoreTTL(hist.written[n].Key)))

C19_Witness ==
  /\ ex.mode = "ExportKeysOnly" /\ Len(hist.written) = 3
  /\ hist.written[1].ttl_seconds = -1 /\ hist.written[2].ttl_seconds = 2
  /\ hist.written[3].Key = "order:1" /\ hist.written[3].ttl_seconds = -1

\* C20: the same WriteRecord calls followed by Close, with the same
\* MaxRecords, take the csv sink and the parquet sink through the same
\* states (same results, partition id, record count, open or not), give the
\* same partition ids and record_counts in Run Metadata, and the same
\* logical rows in the same order in each partition.
Entries(parts) ==
  [n \in 1..Len(parts) |-> [PartitionID |-> parts[n].PartitionID,
                            RecordCount |-> parts[n].RecordCount]]

C20_FormatParity ==
  /\ hist.last.err = ex.err
  /\ fm.partitionID = ex.fm.partitionID
  /\ fm.recordCount = ex.fm.recordCount
  /\ IsOpen(fm) = IsOpen(ex.fm)
  /\ Entries(fm.Partitions) = Entries(ex.fm.Partitions)
  /\ \A n \in 1..Len(fm.Partitions) :
       /\ Len(disk.files[fm.Partitions[n].FileName]) = fm.Partitions[n].RecordCount + 1
       /\ disk.files[fm.Partitions[n].FileName][1] = Header
       /\ ReadCSV(disk.files[fm.Partitions[n].FileName])
            = ReadParquet(ex.disk.files[ex.fm.Partitions[n].FileName])
  /\ ex.pc = "closed" =>
       /\ ~ex.err /\ disk.metaValid /\ ex.disk.metaValid
       /\ disk.metaParts = fm.Partitions /\ ex.disk.metaParts = ex.fm.Partitions
       /\ SumCounts(disk.metaParts) = hist.nWriteOk
       /\ fm.MaxRecords >= 1 => DOMAIN disk.files = DOMAIN ex.disk.files

C20_Witness ==
  /\ ex.pc = "closed" /\ fm.MaxRecords = 2 /\ hist.nWriteOk = 3
  /\ Len(disk.metaParts) = 2 /\ Len(ex.disk.files[1]) = 2
  /\ ReadCSV(disk.files[1])[2].ttl_seconds = -1

\* ------------------------------------------------------------------ C21
\* the data files the Run Metadata of f lists
RotatedFiles(f) == {f.Partitions[n].FileName : n \in 1..Len(f.Partitions)}

\* the data files whose content a step changed or created
TouchedFiles ==
  {id \in DOMAIN disk'.files : id \notin DOMAIN disk.files \/ disk'.files[id] # disk.files[id]}

\* C21: once a partition has been rotated, its entry in the Run Metadata is
\* never modified and its data file receives no further rows: every step of
\* the sink keeps the entries it found and touches no file they name, and
\* a record that was accepted carries the id of the partition that is open
C21_RotatedPartitionFrozen ==
  [][ /\ Len(fm'.Partitions) >= Len(fm.Partitions)
      /\ SubSeq(fm'.Partitions, 1, Len(fm.Partitions)) = fm.Partitions
      /\ TouchedFiles \cap RotatedFiles(fm) = {}
      /\ DOMAIN disk.files \subseteq DOMAIN disk'.files
      /\ hist'.nWriteOk > hist.nWriteOk =>
           /\ IsOpen(fm')
           /\ LastRow(fm').partition_id = fm'.partitionID ]_vars

\* two partitions were rotated and a record was written after that
C21_Witness ==
  /\ Len(fm.Partitions) = 2
  /\ hist.last.op = "write" /\ ~hist.last.err
  /\ fm.recordCount = 1
  /\ fm.partitionID = 3

\* ------------------------------------------------------------------ C22
\* the sink holds an output file or a database connection that is open
HoldsHandle(f) == f.csvFile = "open" \/ f.db = "open"

\* C22: after Close returned, the sink holds no open output file handle and
\* no open DuckDB connection, whatever WriteRecord calls came before
C22_CloseReleasesHandles ==
  hist.last.op = "close" => ~HoldsHandle(fm)

\* ------------------------------------------------------------------ C23
\* C23: export_metadata.json is written only by Close: as long as Close was
\* not called, whatever writes, flushes and rotations took place, the run
\* has written no Run Metadata file
C23_MetadataOnlyByClose ==
  hist.nCloseCalls = 0 =>
    /\ ~disk.metaExists
    /\ disk.metaWrites = 0
    /\ fm.EndTime = "zero"

\* before any Close: three records written, a rotation by the threshold and
\* one asked for by the caller
C23_Witness ==
  /\ hist.nCloseCalls = 0
  /\ hist.nWriteOk = 3
  /\ hist.nRotateCalls = 1
  /\ Len(fm.Partitions) >= 2

\* ------------------------------------------------------------------ C29
\* the number of WriteRecord calls made so far
WriteCalls == hist.nWriteOk + hist.nWriteErr

\* C29: creating a FileManager opens nothing: until the first WriteRecord
\* call the record counter and the partition id are 0, the partitions list is
\* empty and no file or directory exists; the first partition has id 1 and
\* file name redis_data_part_0001.<ext> and is opened by the first
\* WriteRecord call
C29_FirstWriteOpensPartitionOne ==
  /\ WriteCalls = 0 =>
       /\ fm.recordCount = 0 /\ fm.partitionID = 0 /\ fm.Partitions = <<>>
       /\ ~IsOpen(fm) /\ ~HoldsHandle(fm)
       /\ disk.files = <<>> /\ ~disk.dir
  /\ (WriteCalls = 1 /\ hist.last.op = "write") =>
       /\ hist.last.startPid = 0 /\ ~hist.last.startOpen
       /\ (~hist.last.err /\ fm.MaxRecords >= 1) =>
            /\ fm.partitionID = 1 /\ fm.recordCount = 1
            /\ LastRow(fm).partition_id = 1
            /\ fm.Format = FormatCSV =>
                 /\ fm.csvFile = "open" /\ fm.csvFileID = 1 /\ 1 \in DOMAIN disk.files
                 /\ fileName(fm.Format, fm.csvFileID) = "redis_data_part_0001.csv"
            /\ fm.Format = FormatParquet =>
                 /\ fm.db = "open"
                 /\ fileName(fm.Format, fm.partitionID) = "redis_data_part_0001.parquet"

\* the first WriteRecord call came after other calls and opened partition 1
C29_Witness ==
  /\ WriteCalls = 1 /\ hist.last.op = "write" /\ ~hist.last.err
  /\ hist.calls = 3
  /\ fm.partitionID = 1 /\ IsOpen(fm)

\* ------------------------------------------------------------------ C30
\* the state of the sink that SetMetadata has to leave alone
SetMetadataFrame(f) ==
  <<f.ExportID, f.StartTime, f.EndTime, f.Partitions, f.recordCount, f.partitionID,
    f.Format, f.MaxRecords, f.csvWriter, f.csvBuf, f.csvFile, f.csvFileID,
    f.db, f.dbTable, f.dbRows>>

\* C30: SetMetadata(pattern, totalKeys) sets the pattern and total_keys of
\* the Run Metadata to the values given and leaves the export id, the start
\* time, the partitions list, the record counter, the partition id and the
\* open writer unchanged
C30_SetMetadataFrame ==
  [][ (hist'.last.op = "setmeta" /\ hist'.calls = hist.calls + 1) =>
        /\ fm'.Pattern = hist'.args[1]
        /\ fm'.TotalKeys = hist'.args[2]
        /\ SetMetadataFrame(fm') = SetMetadataFrame(fm)
        /\ disk' = disk ]_vars

\* SetMetadata changed both values while a partition was open and another
\* one rotated
C30_Witness ==
  /\ hist.last.op = "setmeta"
  /\ hist.args = <<"user:*", 1>>
  /\ fm.Pattern = "user:*" /\ fm.TotalKeys = 1
  /\ fm.recordCount = 1 /\ Len(fm.Partitions) = 1

\* ------------------------------------------------------------------ C24
\* one of the four setup failures applies to the call
SetupFailure(e) ==
  \/ e.opts.RedisURL.scheme \notin {"redis", "rediss", "unix"}
  \/ ~e.pingOk
  \/ ~e.mkdirOk
  \/ e.opts.OutputFormat \notin {"parquet", "csv", ""}

\* C24: NewRedisExporter fails on a bad URL, a failed ping, a failed
\* creation of the output directory or an unsupported output format; when
\* it fails it returns no exporter, and no record, data file or metadata file
\* has been written
C24_SetupFailureWritesNothing ==
  ex.pc # "new" =>
    /\ SetupFailure(ex) <=> ex.pc = "failed"
    /\ ex.pc = "failed" =>
         /\ ex.err # "nil"
         /\ ex.exporter = NilExporter
         /\ fm = NoFileManager
         /\ disk.files = <<>> /\ ~disk.metaExists /\ disk.metaWrites = 0
         /\ hist.written = <<>> /\ hist.calls = 0
    /\ ex.pc # "failed" =>
         /\ ex.err = "nil"
         /\ ~ex.exporter.nil

\* the constructor failed on the format alone, after the server answered and
\* the output directory was created
C24_Witness ==
  /\ ex.mode = "setup" /\ ex.pc = "failed"
  /\ ex.err = "unsupported output format"
  /\ ex.opts.OutputFormat = "json"
  /\ ex.outputDir /\ ex.client = "open"

\* ------------------------------------------------------------------ C25
\* the sub-scan of the key answers with an element that has no pair
Malformed(key) ==
  \/ KeyType(key) = "hash" /\ Len(HScan(key)) % 2 = 1
  \/ KeyType(key) = "zset" /\ Len(ZScan(key)) % 2 = 1

\* C25: when a hash or sorted-set sub-scan returns a malformed response (an
\* odd number of elements), the key is handled as a per-key error: exportKey
\* returns an error for it, so that it is skipped and not counted as exported
C25_MalformedReplySkipsKey ==
  \A n \in 1..Len(ex.out) : Malformed(ex.out[n].key) => ex.out[n].err

\* ------------------------------------------------------------------ C27
\* the zset_member record of the n-th member/score pair of a reply
ZSetMember(key, reply, n) ==
  RedisRecord(key \o ":member:" \o reply[2 * n - 1], "zset_member",
              "score=" \o reply[2 * n] \o ",rank=" \o FormatInt(n - 1), -1)

\* the member records among the records exportKey wrote for a sorted set
MemberRecords(o) ==
  SubSeq(o.records, 1, IF o.err THEN Len(o.records) ELSE Len(o.records) - 1)

\* C27: for a sorted-set key one zset_member record is emitted per
\* member/score pair the sub-scan returned, in its order, with value
\* score=<raw score string>,rank=<r>, where r starts at 0 and grows by
\* exactly 1 per emitted member across all pages of the sub-scan
C27_ZSetRanksSequential ==
  /\ WrittenIsOut
  /\ \A n \in 1..Len(ex.out) :
       ex.out[n].type = "zset" =>
         /\ Len(MemberRecords(ex.out[n])) <= Len(ZScan(ex.out[n].key)) \div 2
         /\ ~ex.out[n].err =>
              Len(MemberRecords(ex.out[n])) = Len(ZScan(ex.out[n].key)) \div 2
         /\ \A m \in 1..Len(MemberRecords(ex.out[n])) :
              ex.out[n].records[m] = ZSetMember(ex.out[n].key, ZScan(ex.out[n].key), m)

\* the three members of board were written from more than one page, the last
\* with rank 2
C27_Witness ==
  \E n \in 1..Len(ex.out) :
    /\ ex.out[n].key = "board" /\ ~ex.out[n].err
    /\ Len(Pages(ZScan("board"), 2 * PageSize)) > 1
    /\ ex.out[n].records[3].Value = "score=7,rank=2"
    /\ ex.out[n].records[1].Value = "score=9.5,rank=0"

\* ------------------------------------------------------------------ C28
\* the key of the store that a written row was flattened from
Owner(row) ==
  CHOOSE k \in Range(ex.store) :
    \/ row.Key = k
    \/ \E m \in 1..Len(exportKeyData(k, KeyType(k)).records) :
         exportKeyData(k, KeyType(k)).records[m].Key = row.Key

\* C28: in full-data mode the records of one key are contiguous in the
\* output stream: between two written records of key k, member records or
\* the per-key record, there is no record of another key
C28_KeyRecordsContiguous ==
  \A a \in 1..Len(hist.written) : \A c \in a..Len(hist.written) :
    Owner(hist.written[a]) = Owner(hist.written[c]) =>
      \A b \in a..c : Owner(hist.written[b]) = Owner(hist.written[a])

\* the members and the per-key record of board were written, then those of
\* queue
C28_Witness ==
  /\ ex.mode = "ExportByPattern" /\ ex.pc = "returned"
  /\ Len(hist.written) = 7
  /\ Owner(hist.written[1]) = "board" /\ Owner(hist.written[4]) = "board"
  /\ Owner(hist.written[5]) = "queue" /\ Owner(hist.written[7]) = "queue"
  /\ hist.written[4].Key = "board" /\ hist.written[7].Key = "queue"

\* ------------------------------------------------------------------ C26
\* C26: in full-data mode a list key k of length L yields exactly L
\* list_item records, one per element, with keys k:index:0 .. k:index:L-1 in
\* increasing order, every index exactly once across the pages of the range
\* loop, and the value of each equal to the element at that index
C26_ListItemPerIndex ==
  (ex.mode = "list" /\ ex.pc = "flattened") =>
    /\ Len(ex.records) = Len(ex.values)
    /\ \A i \in 1..Len(ex.values) :
         ex.records[i] = RedisRecord(ex.key \o ":index:" \o FormatInt(i - 1), "list_item",
                                     ex.values[i], -1)

\* a list of two full chunks and one element more was flattened
C26_Witness ==
  /\ ex.mode = "list" /\ ex.pc = "flattened"
  /\ Len(ex.values) = 2 * chunkSize + 1
  /\ ex.key = "queue"
  /\ ex.records[chunkSize + 1].Key = "queue:index:1000"
  /\ ex.records[2 * chunkSize + 1].Key = "queue:index:2000"
  /\ ex.records[2 * chunkSize + 1].Value = "2001"

\* ------------------------------------------------------------------ C31
\* C31: after Close the sink is in a terminal Closed state: a WriteRecord
\* call that follows a Close call is rejected with an error and opens no
\* new partition
C31_ClosedRejectsWrites ==
  (hist.nCloseCalls > 0 /\ hist.last.op = "write") =>
    /\ hist.last.err
    /\ fm.partitionID = hist.last.startPid

\* ------------------------------------------------------------------ C36
\* C36: a WriteRecord call that fails because the output format is
\* unsupported leaves the sink state unchanged: however often the call is
\* repeated, the record counter, the partition id, the partitions of the Run
\* Metadata and the directories and files on disk are as they were at
\* construction
C36_InvalidFormatLeavesState ==
  (~Supported(fm) /\ hist.last.op = "write") =>
    /\ hist.last.err
    /\ fm.recordCount = 0 /\ fm.Partitions = <<>>
    /\ fm.partitionID = 0
    /\ ~disk.dir /\ disk.files = <<>>

\* ------------------------------------------------------------------ C39
\* C39: every partition entry of the Run Metadata, in memory and in the
\* metadata file, has a record count of at least 1, after any sequence of
\* WriteRecord, RotateWriter and Close calls
C39_NoEmptyPartitionRecorded ==
  /\ \A n \in DOMAIN fm.Partitions : fm.Partitions[n].RecordCount >= 1
  /\ \A n \in DOMAIN disk.metaParts : disk.metaParts[n].RecordCount >= 1

\* RotateWriter or Close was called on an open partition without records,
\* after a partition had been recorded
C39_Witness ==
  /\ hist.last.op \in {"rotate", "close"}
  /\ hist.last.startOpen /\ hist.last.startCount = 0
  /\ ~hist.last.err
  /\ Len(fm.Partitions) >= 1

\* ------------------------------------------------------------------ C37
\* the partition ids of a list of partition entries, in order
PartitionIDs(parts) == [n \in 1..Len(parts) |-> parts[n].PartitionID]

\* C37: with a supported format, MaxRecords >= 1 and no failed call, the
\* partition id counter equals the number of partition entries of the Run
\* Metadata plus 1 if a writer is open, and the partition ids of the entries
\* are 1, 2, ..., k in that order
C37_PartitionCounterMatchesEntries ==
  (Supported(fm) /\ fm.MaxRecords >= 1 /\ ~hist.failed) =>
    /\ fm.partitionID = Len(fm.Partitions) + OpenCount(fm)
    /\ PartitionIDs(fm.Partitions) = [n \in 1..Len(fm.Partitions) |-> n]

\* ------------------------------------------------------------------ C38
\* the partition_id column of the records of a data file, read back
PartitionColumn(format, file) ==
  IF format = FormatCSV
  THEN [n \in 1..Len(SelectSeq(file, LAMBDA row : row # Header)) |->
          ParseInt(SelectSeq(file, LAMBDA row : row # Header)[n].partition_id)]
  ELSE [n \in 1..Len(file) |-> file[n].partition_id]

\* C38: in both formats the partition_id column of every record in a data
\* file equals the NNNN number in the name of that file, and every partition
\* entry of the Run Metadata names the file redis_data_part_NNNN of its own
\* partition_id, which holds the records the entry accounts for
C38_PartitionIdMatchesFileAndEntry ==
  Supported(fm) =>
    /\ \A id \in DOMAIN disk.files :
         \A n \in DOMAIN PartitionColumn(fm.Format, disk.files[id]) :
           PartitionColumn(fm.Format, disk.files[id])[n] = id
    /\ \A n \in DOMAIN fm.Partitions :
         /\ fm.Partitions[n].FileName \in DOMAIN disk.files
         /\ fileName(fm.Format, fm.Partitions[n].FileName) =
              "redis_data_part_" \o Pad4(fm.Partitions[n].PartitionID) \o
                (IF fm.Format = FormatCSV THEN ".csv" ELSE ".parquet")
         /\ Len(PartitionColumn(fm.Format, disk.files[fm.Partitions[n].FileName])) =
              fm.Partitions[n].RecordCount

\* two partitions were completed and their records are in their files
C38_Witness ==
  /\ Supported(fm)
  /\ Len(fm.Partitions) >= 2
  /\ \A n \in DOMAIN fm.Partitions :
       Len(PartitionColumn(fm.Format, disk.files[fm.Partitions[n].FileName])) >= 1

\* ------------------------------------------------------------------ C33
\* the keys a run exported: in the keys-only modes one accepted record per
\* key, in full-data mode the keys exportKey returned without error for
KeysExported(e, h) ==
  IF KeysOnlyMode(e) THEN h.nWriteOk
  ELSE Cardinality({n \in DOMAIN e.out : ~e.out[n].err})

\* C33: when an export method has returned, with nil or with an error, the
\* total_keys of the written Run Metadata equals the number of keys exported
\* in that run, in each of the three export modes
C33_TotalKeysCountsExportedKeys ==
  (ex.pc = "returned" /\ disk.metaExists /\ disk.metaValid) =>
    disk.metaTotalKeys = KeysExported(ex, hist)

\* ------------------------------------------------------------------ C34
\* C34: in full-data mode a key contributes all of its records or none: a
\* key whose export failed part-way (a later page of its sub-scan or a sink
\* write failed) has no record in the output
C34_KeyAllOrNothing ==
  \A n \in DOMAIN ex.out : ex.out[n].err => ex.out[n].records = <<>>

\* ------------------------------------------------------------------ C35
\* the TTL of a key as the output states it
NormalizedTTL(key) == IF StoreTTL(key) <= 0 THEN -1 ELSE WholeSeconds(StoreTTL(key))

\* C35: in full-data mode every record derived from a key, its member,
\* field and element records as well as its per-key record, carries the
\* key's normalized TTL in ttl_seconds
C35_EveryRecordCarriesKeyTTL ==
  \A n \in DOMAIN hist.written :
    hist.written[n].ttl_seconds = NormalizedTTL(Owner(hist.written[n]))

\* ------------------------------------------------------------------ C32
\* the Run Metadata a run has written
WrittenMetadata(d) ==
  [exists |-> d.metaExists, valid |-> d.metaValid, partitions |-> d.metaParts,
   pattern |-> d.metaPattern, total_keys |-> d.metaTotalKeys, end_time |-> d.metaEndTime]

\* the records of the data files of a run, header lines left out
FileRecords(format, d) ==
  [id \in DOMAIN d.files |->
     IF format = FormatCSV
     THEN [n \in 1..Len(SelectSeq(d.files[id], LAMBDA row : row # Header)) |->
             ReadCSVRow(SelectSeq(d.files[id], LAMBDA row : row # Header)[n])]
     ELSE d.files[id]]

\* C32: ExportKeysOnly() and ExportKeysOnlyByPattern("*") are equivalent:
\* on the same store and configuration, with the same store and sink
\* failures, they take the same steps, return the same result, write the
\* same sequence of records into the same partitions and write the same Run
\* Metadata
C32_KeysOnlyMethodsEquivalent ==
  /\ ex.a.pc = ex.b.pc /\ ex.a.ret = ex.b.ret
  /\ hist.a.written = hist.b.written
  /\ fm.a.Partitions = fm.b.Partitions
  /\ FileRecords(fm.a.Format, disk.a) = FileRecords(fm.b.Format, disk.b)
  /\ WrittenMetadata(disk.a) = WrittenMetadata(disk.b)

\* both methods have returned after an accepted and a rejected record: the
\* key counters of the two differ and the Run Metadata is written
C32_Witness ==
  /\ ex.a.pc = "returned" /\ ex.b.pc = "returned"
  /\ Len(hist.a.written) >= 1 /\ hist.a.nWriteErr >= 1
  /\ ex.a.count < ex.b.count
  /\ disk.a.metaExists /\ disk.b.metaExists

====
